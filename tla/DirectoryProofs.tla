---------------------------- MODULE DirectoryProofs ----------------------------
(***************************************************************************)
(* Proofs about what servers know of each other over connections that come *)
(* and go: registrars and the directory's maps, for any number of          *)
(* connections, changes, keys and registrants.                             *)
(***************************************************************************)
EXTENDS DirectoryMap, Registrar, Queues, TLAPS

--------------------------------------------------------------------------------
(* Who is in a line that grows at its end and shrinks at its head.         *)
Once(s, x) == \A i, j \in 1 .. Len(s) : (s[i] = x /\ s[j] = x) => i = j

(* Who is in a line after an arrival.                                      *)
LEMMA AppendToSeq ==
    ASSUME NEW S, NEW s \in Seq(S), NEW m \in S
    PROVE  /\ Append(s, m) \in Seq(S) /\ Append(s, m) # <<>>
           /\ \A x \in S : InSeq(Append(s, m), x) <=> (InSeq(s, x) \/ x = m)
           /\ \A x \in S : (Once(s, x) /\ (x # m \/ ~ InSeq(s, m))) => Once(Append(s, m), x)
           /\ s # <<>> => Head(Append(s, m)) = Head(s)
<1> DEFINE t == Append(s, m)
<1>1. /\ Len(s) \in Nat /\ Len(t) = Len(s) + 1 /\ t[Len(s) + 1] = m /\ t \in Seq(S) /\ t # <<>>
      /\ \A i \in 1 .. Len(s) : t[i] = s[i]
  OBVIOUS
<1>2. s # <<>> => Head(t) = Head(s)
  OBVIOUS
<1> HIDE DEF t
<1>3. \A i \in 1 .. Len(t) : i \in 1 .. Len(s) \/ i = Len(s) + 1
  BY <1>1
<1>4. Len(s) + 1 \in 1 .. Len(t) /\ \A i \in 1 .. Len(s) : i \in 1 .. Len(t)
  BY <1>1
<1>5. \A x \in S : InSeq(t, x) <=> (InSeq(s, x) \/ x = m)
  BY Zenon, <1>1, <1>3, <1>4 DEF InSeq
<1>6. ASSUME NEW x \in S, Once(s, x), x # m \/ ~ InSeq(s, m) PROVE Once(t, x)
  <2> SUFFICES ASSUME NEW i \in 1 .. Len(t), NEW j \in 1 .. Len(t), t[i] = x, t[j] = x PROVE i = j
    BY Zenon DEF Once
  <2>1. CASE i \in 1 .. Len(s) /\ j \in 1 .. Len(s)
    BY Zenon, <2>1, <1>1, <1>6 DEF Once
  <2>2. CASE i = Len(s) + 1 /\ j \in 1 .. Len(s)
    BY Zenon, <2>2, <1>1, <1>6 DEF InSeq
  <2>3. CASE j = Len(s) + 1 /\ i \in 1 .. Len(s)
    BY Zenon, <2>3, <1>1, <1>6 DEF InSeq
  <2> QED
    BY Zenon, <2>1, <2>2, <2>3, <1>3
<1> QED
  BY Zenon, <1>1, <1>2, <1>5, <1>6 DEF t

(* Who is in a line after its head has left.                               *)
LEMMA TailOfSeq ==
    ASSUME NEW S, NEW s \in Seq(S), s # <<>>
    PROVE  /\ Tail(s) \in Seq(S) /\ Head(s) \in S /\ InSeq(s, Head(s))
           /\ \A x \in S : InSeq(Tail(s), x) => InSeq(s, x)
           /\ \A x \in S : (InSeq(s, x) /\ x # Head(s)) => InSeq(Tail(s), x)
           /\ \A x \in S : Once(s, x) => Once(Tail(s), x)
           /\ Once(s, Head(s)) => ~ InSeq(Tail(s), Head(s))
<1> DEFINE t == Tail(s)
<1>1. /\ Len(s) \in Nat /\ Len(s) >= 1 /\ Len(t) = Len(s) - 1 /\ t \in Seq(S)
      /\ Head(s) = s[1] /\ Head(s) \in S
      /\ \A i \in 1 .. Len(t) : t[i] = s[i + 1]
  OBVIOUS
<1> HIDE DEF t
<1>2. \A i \in 1 .. Len(t) : i + 1 \in 1 .. Len(s) /\ i + 1 # 1
  BY <1>1
<1>3. \A i \in 1 .. Len(s) : i = 1 \/ (i - 1 \in 1 .. Len(t) /\ (i - 1) + 1 = i)
  BY <1>1
<1>4. 1 \in 1 .. Len(s)
  BY <1>1
<1>5. \A x \in S : InSeq(t, x) => InSeq(s, x)
  BY Zenon, <1>1, <1>2 DEF InSeq
<1>6. ASSUME NEW x \in S, InSeq(s, x), x # Head(s) PROVE InSeq(t, x)
  <2>1. PICK i \in 1 .. Len(s) : s[i] = x
    BY Zenon, <1>6 DEF InSeq
  <2>2. i - 1 \in 1 .. Len(t) /\ (i - 1) + 1 = i
    BY Zenon, <2>1, <1>1, <1>3, <1>6
  <2>3. t[i - 1] = x
    BY Zenon, <2>1, <2>2, <1>1
  <2> QED
    BY Zenon, <2>2, <2>3 DEF InSeq
<1>7. ASSUME NEW x \in S, Once(s, x) PROVE Once(t, x)
  <2> SUFFICES ASSUME NEW i \in 1 .. Len(t), NEW j \in 1 .. Len(t), t[i] = x, t[j] = x PROVE i = j
    BY Zenon DEF Once
  <2>1. s[i + 1] = x /\ s[j + 1] = x
    BY Zenon, <1>1
  <2>2. i + 1 = j + 1
    BY Zenon, <2>1, <1>2, <1>7 DEF Once
  <2> QED
    BY <2>2, <1>1
<1>8. ASSUME Once(s, Head(s)), InSeq(t, Head(s)) PROVE FALSE
  <2>1. PICK i \in 1 .. Len(t) : t[i] = Head(s)
    BY Zenon, <1>8 DEF InSeq
  <2>2. s[i + 1] = Head(s) /\ s[1] = Head(s)
    BY Zenon, <2>1, <1>1
  <2>3. i + 1 = 1
    BY Zenon, <2>2, <1>2, <1>4, <1>8 DEF Once
  <2> QED
    BY Zenon, <2>3, <1>2
<1>9. InSeq(s, Head(s))
  BY Zenon, <1>1, <1>4 DEF InSeq
<1> QED
  BY Zenon, <1>1, <1>5, <1>6, <1>7, <1>8, <1>9 DEF t

--------------------------------------------------------------------------------
(* Registrar: the inductive invariant                                      *)

RgHandlers == {"create", "delete", "end"} \X RgIds
RgClients == [st : {"unborn", "registered", "gone"}, conn : 0 .. RgMaxConns]

RgTypeOK ==
    /\ rgConn \in [n : 1 .. RgMaxConns, st : {"up", "closing", "down"}]
    /\ rgClient \in [RgIds -> RgClients]
    /\ rgNet \subseteq {"create", "delete"} \X RgIds
    /\ rgMutex \in Seq(RgHandlers) /\ rgPool \in Seq(RgIds)
    /\ rgMap \in [RgIds -> {"absent", "null", "cond", "pulsed"}]
    /\ rgReg \in [RgIds -> {"none", "building", "active", "queued", "ended", "refused"}]

\* The message of r is not handled yet
Pending(what, r) == <<what, r>> \in rgNet \/ InSeq(rgMutex, <<what, r>>)

\* What the registrar's map says of a registration, and who will still come for it
EntryInv(r) ==
    /\ rgReg[r] = "none" => rgMap[r] \in {"absent", "null"}
    /\ rgReg[r] = "building" => rgMap[r] = "absent" /\ Has("create", r)
    /\ rgReg[r] = "active" => rgMap[r] = "cond"
    /\ rgReg[r] = "queued" => rgMap[r] \in {"cond", "pulsed"}
    /\ rgReg[r] \in {"ended", "refused"} => rgMap[r] \in {"absent", "null"}
    /\ rgMap[r] \in {"null", "pulsed"} => rgClient[r].st = "gone" /\ ~ Pending("delete", r)
    /\ (InSeq(rgPool, r) \/ InSeq(rgMutex, <<"end", r>>)) => rgReg[r] \in {"queued", "ended"}

\* A registrant sends its two messages once, the second when it is gone
MessageInv(r) ==
    /\ rgClient[r].st = "unborn" => rgReg[r] = "none" /\ rgMap[r] = "absent" /\ ~ Pending("create", r)
    /\ Pending("delete", r) => rgClient[r].st = "gone"
    /\ Once(rgMutex, <<"delete", r>>)
    /\ <<"delete", r>> \in rgNet => ~ InSeq(rgMutex, <<"delete", r>>)

\* While the connection stands, what a registrant has sent is handled or pending
StandingInv(r) ==
    rgConn.st = "up" =>
        /\ rgClient[r] = [st |-> "registered", conn |-> rgConn.n] =>
             rgReg[r] \in {"building", "active"} \/ (rgReg[r] = "none" /\ Pending("create", r))
        /\ (rgClient[r].st = "gone" /\ rgReg[r] \in {"building", "active"}) => Pending("delete", r)
        /\ (rgClient[r].st = "gone" /\ rgReg[r] = "none" /\ Pending("create", r)) =>
             Pending("delete", r) \/ rgMap[r] = "null"

\* A connection that is gone leaves nothing behind
GoneInv ==
    /\ rgConn.st # "up" => rgNet = {}
    /\ rgConn.st = "down" =>
         \A r \in RgIds : /\ rgReg[r] \notin {"building", "active", "queued"}
                          /\ ~ InSeq(rgMutex, <<"create", r>>) /\ ~ InSeq(rgMutex, <<"delete", r>>)
    /\ \A r \in RgIds : rgClient[r].conn <= rgConn.n

RgIInv ==
    /\ RgTypeOK /\ GoneInv /\ RgGuaranteesHold
    /\ \A r \in RgIds : EntryInv(r) /\ MessageInv(r) /\ StandingInv(r)

(* A handler joins the line of the mutex.                                  *)
LEMMA MutexGrows ==
    ASSUME RgTypeOK, NEW m \in RgHandlers, rgMutex' = Append(rgMutex, m)
    PROVE  /\ rgMutex' \in Seq(RgHandlers) /\ rgMutex' # <<>>
           /\ \A x \in RgHandlers : InSeq(rgMutex', x) <=> (InSeq(rgMutex, x) \/ x = m)
           /\ \A x \in RgHandlers : (Once(rgMutex, x) /\ (x # m \/ ~ InSeq(rgMutex, m))) => Once(rgMutex', x)
           /\ rgMutex # <<>> => Head(rgMutex') = Head(rgMutex)
<1>1. PICK s : s = rgMutex
  BY Zenon
<1>2. s \in Seq(RgHandlers)
  BY Zenon, <1>1 DEF RgTypeOK
<1> QED
  BY <1>1, <1>2, AppendToSeq

(* The holder of the mutex leaves.                                         *)
LEMMA MutexShrinks ==
    ASSUME RgTypeOK, NEW m \in RgHandlers, rgMutex # <<>>, Head(rgMutex) = m, rgMutex' = Tail(rgMutex)
    PROVE  /\ rgMutex' \in Seq(RgHandlers) /\ InSeq(rgMutex, m)
           /\ \A x \in RgHandlers : InSeq(rgMutex', x) => InSeq(rgMutex, x)
           /\ \A x \in RgHandlers : (InSeq(rgMutex, x) /\ x # m) => InSeq(rgMutex', x)
           /\ \A x \in RgHandlers : Once(rgMutex, x) => Once(rgMutex', x)
           /\ Once(rgMutex, m) => ~ InSeq(rgMutex', m)
<1>1. PICK s : s = rgMutex
  BY Zenon
<1>2. s \in Seq(RgHandlers) /\ s # <<>>
  BY Zenon, <1>1 DEF RgTypeOK
<1> QED
  BY Zenon, <1>1, <1>2, TailOfSeq

(* The handlers of a registration.                                         *)
LEMMA HandlersAre ==
    ASSUME NEW r \in RgIds
    PROVE  <<"create", r>> \in RgHandlers /\ <<"delete", r>> \in RgHandlers /\ <<"end", r>> \in RgHandlers
BY Zenon DEF RgHandlers

(* The inductive invariant holds at the start.                             *)
LEMMA InitRgIInv == RgInit => RgIInv
<1> SUFFICES ASSUME RgInit PROVE RgIInv
  BY Zenon
<1>1. \A x : ~ InSeq(<<>>, x)
  BY DEF InSeq
<1>2. \A x : Once(<<>>, x)
  BY DEF Once
<1>3. RgTypeOK
  BY RgAssumption DEF RgInit, RgTypeOK, RgClients
<1>4. GoneInv /\ RgGuaranteesHold
  BY DEF RgInit, GoneInv, RgGuaranteesHold
<1>5. ASSUME NEW r \in RgIds PROVE EntryInv(r) /\ MessageInv(r) /\ StandingInv(r)
  BY Zenon, <1>1, <1>2 DEF RgInit, EntryInv, MessageInv, StandingInv, Pending
<1> QED
  BY Zenon, <1>3, <1>4, <1>5 DEF RgIInv

(* Register keeps the inductive invariant.                                 *)
LEMMA RegisterKeeps ==
    ASSUME RgIInv, NEW r \in RgIds, Register(r)
    PROVE  RgIInv'
<1>1. PICK c : c = [st |-> "registered", conn |-> rgConn.n]
  BY Zenon
<1>2. /\ rgClient[r].st = "unborn" /\ rgConn.st = "up" /\ rgClient' = [rgClient EXCEPT ![r] = c]
      /\ rgNet' = rgNet \cup {<<"create", r>>}
      /\ UNCHANGED <<rgConn, rgMutex, rgPool, rgMap, rgReg, rgFailed>>
  BY Zenon, <1>1 DEF Register, Sent
<1>3. c \in RgClients /\ c.st = "registered" /\ c.conn = rgConn.n
  BY <1>1, RgAssumption DEF RgIInv, RgTypeOK, RgClients
<1>4. rgClient'[r] = c /\ \A q \in RgIds : q # r => rgClient'[q] = rgClient[q]
  BY Zenon, <1>2 DEF RgIInv, RgTypeOK
<1>5. RgTypeOK'
  BY <1>2, <1>3 DEF RgIInv, RgTypeOK
<1>6. GoneInv' /\ RgGuaranteesHold'
  <2>1. \A q \in RgIds : rgClient'[q].conn <= rgConn.n
    BY <1>3, <1>4, RgAssumption DEF RgIInv, RgTypeOK, GoneInv
  <2> QED
    BY Zenon, <1>2, <2>1 DEF RgIInv, GoneInv, RgGuaranteesHold
<1>7. ASSUME NEW q \in RgIds PROVE EntryInv(q)' /\ MessageInv(q)' /\ StandingInv(q)'
  <2>1. EntryInv(q) /\ MessageInv(q) /\ StandingInv(q) /\ EntryInv(r) /\ MessageInv(r)
    BY Zenon DEF RgIInv
  <2>2. Pending("delete", q)' <=> Pending("delete", q)
    BY Zenon, <1>2 DEF Pending
  <2>3. Pending("create", q)' <=> (Pending("create", q) \/ q = r)
    BY Zenon, <1>2 DEF Pending
  <2>4. <<"delete", q>> \in rgNet' <=> <<"delete", q>> \in rgNet
    BY SMTT(30), <1>2
  <2>5. CASE q # r
    BY Zenon, <2>1, <2>2, <2>3, <2>4, <2>5, <1>2, <1>4 DEF EntryInv, MessageInv, StandingInv, Has
  <2>6. CASE q = r
    BY Zenon, <2>1, <2>2, <2>3, <2>4, <2>6, <1>2, <1>3, <1>4 DEF EntryInv, MessageInv, StandingInv, Has
  <2> QED
    BY Zenon, <2>5, <2>6
<1> QED
  BY Zenon, <1>5, <1>6, <1>7 DEF RgIInv

(* SendDeregister keeps the inductive invariant.                           *)
LEMMA SendDeregisterKeeps ==
    ASSUME RgIInv, NEW r \in RgIds, SendDeregisterMessage(r)
    PROVE  RgIInv'
<1>1. /\ rgClient[r].st = "registered" /\ rgClient' = [rgClient EXCEPT ![r].st = "gone"]
      /\ rgNet' = IF rgConn.st = "up" THEN rgNet \cup {<<"delete", r>>} ELSE rgNet
      /\ UNCHANGED <<rgConn, rgMutex, rgPool, rgMap, rgReg, rgFailed>>
  BY Zenon DEF SendDeregisterMessage, Sent
<1>2. /\ rgClient' \in [RgIds -> RgClients] /\ rgClient'[r].st = "gone"
      /\ rgClient'[r].conn = rgClient[r].conn
      /\ \A q \in RgIds : q # r => rgClient'[q] = rgClient[q]
  <2>1. PICK c, d : c = rgClient[r] /\ d = [c EXCEPT !.st = "gone"]
    BY Zenon
  <2>2. d \in RgClients /\ d.st = "gone" /\ d.conn = c.conn
    <3>1. c \in RgClients
      BY Zenon, <2>1 DEF RgIInv, RgTypeOK
    <3> QED
      BY ONLY Zenon, <3>1, <2>1 DEF RgClients
  <2>3. rgClient' = [rgClient EXCEPT ![r] = d] /\ rgClient \in [RgIds -> RgClients]
    BY Zenon, <2>1, <1>1 DEF RgIInv, RgTypeOK
  <2> QED
    BY Zenon, <2>1, <2>2, <2>3
<1>3. RgTypeOK'
  BY <1>1, <1>2 DEF RgIInv, RgTypeOK
<1>4. GoneInv' /\ RgGuaranteesHold'
  <2>1. \A q \in RgIds : rgClient'[q].conn <= rgConn.n
    BY Zenon, <1>2 DEF RgIInv, GoneInv
  <2> QED
    BY Zenon, <1>1, <2>1 DEF RgIInv, GoneInv, RgGuaranteesHold
<1>5. ASSUME NEW q \in RgIds PROVE EntryInv(q)' /\ MessageInv(q)' /\ StandingInv(q)'
  <2>1. EntryInv(q) /\ MessageInv(q) /\ StandingInv(q)
    BY Zenon DEF RgIInv
  <2>2. Pending("create", q)' <=> Pending("create", q)
    BY Zenon, <1>1 DEF Pending
  <2>3. CASE q # r
    <3>1. Pending("delete", q)' <=> Pending("delete", q)
      BY Zenon, <2>3, <1>1 DEF Pending
    <3>2. <<"delete", q>> \in rgNet' <=> <<"delete", q>> \in rgNet
      BY Zenon, <2>3, <1>1
    <3> QED
      BY <2>1, <2>2, <2>3, <3>1, <3>2, <1>1, <1>2 DEF EntryInv, MessageInv, StandingInv, Has
  <2>4. CASE q = r
    <3>1. ~ Pending("delete", q) /\ rgMap[q] \notin {"null", "pulsed"}
      BY Zenon, <2>1, <2>4, <1>1 DEF EntryInv, MessageInv
    <3>2. ~ InSeq(rgMutex, <<"delete", q>>)
      BY Zenon, <3>1 DEF Pending
    <3>3. rgConn.st = "up" => Pending("delete", q)'
      BY Zenon, <2>4, <1>1 DEF Pending
    <3> QED
      BY <2>1, <2>2, <2>4, <3>1, <3>2, <3>3, <1>1, <1>2 DEF EntryInv, MessageInv, StandingInv, Has
  <2> QED
    BY Zenon, <2>3, <2>4
<1> QED
  BY Zenon, <1>3, <1>4, <1>5 DEF RgIInv

(* MailboxReads keeps the inductive invariant.                             *)
LEMMA MailboxReadsKeeps ==
    ASSUME RgIInv, NEW m \in rgNet, MailboxReads(m)
    PROVE  RgIInv'
<1>1. /\ rgConn.st = "up" /\ rgNet' = rgNet \ {m} /\ rgMutex' = Append(rgMutex, m)
      /\ UNCHANGED <<rgConn, rgClient, rgPool, rgMap, rgReg, rgFailed>>
  BY Zenon DEF MailboxReads
<1>2. m \in RgHandlers /\ m[1] # "end"
  BY Zenon DEF RgIInv, RgTypeOK, RgHandlers
<1>3. /\ rgMutex' \in Seq(RgHandlers) /\ rgMutex' # <<>>
      /\ \A x \in RgHandlers : InSeq(rgMutex', x) <=> (InSeq(rgMutex, x) \/ x = m)
      /\ \A x \in RgHandlers : (Once(rgMutex, x) /\ (x # m \/ ~ InSeq(rgMutex, m))) => Once(rgMutex', x)
      /\ rgMutex # <<>> => Head(rgMutex') = Head(rgMutex)
  BY Zenon, <1>1, <1>2, MutexGrows DEF RgIInv
<1>4. RgTypeOK'
  BY SMTT(30), <1>1, <1>3 DEF RgIInv, RgTypeOK
<1>5. GoneInv' /\ RgGuaranteesHold'
  BY SMTT(30), <1>1 DEF RgIInv, GoneInv, RgGuaranteesHold
<1>6. ASSUME NEW q \in RgIds PROVE EntryInv(q)' /\ MessageInv(q)' /\ StandingInv(q)'
  <2>1. EntryInv(q) /\ MessageInv(q) /\ StandingInv(q)
    BY Zenon DEF RgIInv
  <2>2. <<"create", q>> \in RgHandlers /\ <<"delete", q>> \in RgHandlers /\ <<"end", q>> \in RgHandlers
    BY Zenon, HandlersAre
  <2>3. (Pending("create", q)' <=> Pending("create", q)) /\ (Pending("delete", q)' <=> Pending("delete", q))
    BY Zenon, <2>2, <1>1, <1>3 DEF Pending
  <2>4. InSeq(rgMutex', <<"end", q>>) => InSeq(rgMutex, <<"end", q>>)
    BY <2>2, <1>2, <1>3
  <2>5. Has("create", q) => Has("create", q)'
    BY Zenon, <1>3 DEF Has
  <2>6. Once(rgMutex', <<"delete", q>>)
    BY Zenon, <2>1, <2>2, <1>3 DEF MessageInv
  <2>7. <<"delete", q>> \in rgNet' => ~ InSeq(rgMutex', <<"delete", q>>)
    BY SMTT(30), <2>1, <2>2, <1>1, <1>3 DEF MessageInv
  <2> QED
    BY Zenon, <2>1, <2>3, <2>4, <2>5, <2>6, <2>7, <1>1 DEF EntryInv, MessageInv, StandingInv
<1> QED
  BY Zenon, <1>4, <1>5, <1>6 DEF RgIInv

(* A handler of one registration that is done leaves the others' alone.    *)
LEMMA HandlerLeavesOthers ==
    ASSUME RgIInv, NEW what \in {"create", "delete", "end"}, NEW r \in RgIds, Has(what, r),
           rgMutex' = Tail(rgMutex), UNCHANGED <<rgConn, rgClient, rgNet>>,
           NEW q \in RgIds, q # r, rgMap'[q] = rgMap[q], rgReg'[q] = rgReg[q],
           InSeq(rgPool', q) => InSeq(rgPool, q)
    PROVE  EntryInv(q)' /\ MessageInv(q)' /\ StandingInv(q)'
<1>1. EntryInv(q) /\ MessageInv(q) /\ StandingInv(q)
  BY Zenon DEF RgIInv
<1>2. /\ <<"create", q>> \in RgHandlers /\ <<"delete", q>> \in RgHandlers /\ <<"end", q>> \in RgHandlers
      /\ <<what, r>> \in RgHandlers
  BY Zenon, HandlersAre DEF RgHandlers
<1>3. rgMutex # <<>> /\ Head(rgMutex) = <<what, r>>
  BY Zenon DEF Has
<1>4. /\ \A x \in RgHandlers : InSeq(rgMutex', x) => InSeq(rgMutex, x)
      /\ \A x \in RgHandlers : (InSeq(rgMutex, x) /\ x # <<what, r>>) => InSeq(rgMutex', x)
      /\ \A x \in RgHandlers : Once(rgMutex, x) => Once(rgMutex', x)
  BY Zenon, <1>2, <1>3, MutexShrinks DEF RgIInv
<1>5. ~ Has("create", q)
  BY <1>3 DEF Has
<1>6. (Pending("create", q)' <=> Pending("create", q)) /\ (Pending("delete", q)' <=> Pending("delete", q))
  <2>1. <<"create", q>> # <<what, r>> /\ <<"delete", q>> # <<what, r>>
    BY Zenon
  <2> QED
    BY Zenon, <2>1, <1>2, <1>4 DEF Pending
<1>7. /\ InSeq(rgMutex', <<"end", q>>) => InSeq(rgMutex, <<"end", q>>)
      /\ Once(rgMutex', <<"delete", q>>)
      /\ <<"delete", q>> \in rgNet' => ~ InSeq(rgMutex', <<"delete", q>>)
  BY Zenon, <1>1, <1>2, <1>4 DEF MessageInv
<1> QED
  BY Zenon, <1>1, <1>5, <1>6, <1>7 DEF EntryInv, MessageInv, StandingInv

\* The handler at the head of the mutex is in it
LEMMA HeadIsPending ==
    ASSUME RgIInv, NEW what \in {"create", "delete", "end"}, NEW r \in RgIds, Has(what, r)
    PROVE  InSeq(rgMutex, <<what, r>>)
<1>1. PICK s : s = rgMutex
  BY Zenon
<1>2. s \in Seq(RgHandlers) /\ s # <<>> /\ Head(s) = <<what, r>>
  BY Zenon, <1>1 DEF RgIInv, RgTypeOK, Has
<1> QED
  BY Zenon, <1>1, <1>2, TailOfSeq

(* OnCreateRegistration keeps the inductive invariant.                     *)
LEMMA OnCreateRegistrationKeeps ==
    ASSUME RgIInv, NEW r \in RgIds, OnCreateRegistration(r)
    PROVE  RgIInv'
<1>1. /\ Has("create", r) /\ rgReg[r] = "none" /\ UNCHANGED <<rgConn, rgClient, rgNet, rgPool>>
      /\ rgMutex # <<>> /\ Head(rgMutex) = <<"create", r>>
  BY Zenon DEF OnCreateRegistration, Has
<1>2. EntryInv(r) /\ MessageInv(r) /\ StandingInv(r)
  BY Zenon DEF RgIInv
<1>3. <<"create", r>> \in RgHandlers /\ <<"delete", r>> \in RgHandlers /\ <<"end", r>> \in RgHandlers
  BY SMTT(30), HandlersAre
<1>4. Pending("create", r) /\ rgClient[r].st # "unborn" /\ rgConn.st # "down"
  <2>1. InSeq(rgMutex, <<"create", r>>)
    BY Zenon, <1>1, HeadIsPending
  <2> QED
    BY Zenon, <2>1, <1>2 DEF Pending, MessageInv, RgIInv, GoneInv
<1>5. CASE rgMap[r] = "absent"
  <2>1. rgReg' = [rgReg EXCEPT ![r] = "building"] /\ UNCHANGED <<rgMutex, rgMap, rgFailed>>
    BY Zenon, <1>5 DEF OnCreateRegistration
  <2>2. rgReg'[r] = "building" /\ \A q \in RgIds : q # r => rgReg'[q] = rgReg[q]
    BY Zenon, <2>1 DEF RgIInv, RgTypeOK
  <2>3. RgTypeOK'
    BY SMTT(30), <2>1, <1>1 DEF RgIInv, RgTypeOK
  <2>4. GoneInv' /\ RgGuaranteesHold'
    BY Zenon, <2>1, <1>1, <1>4 DEF RgIInv, GoneInv, RgGuaranteesHold
  <2>5. ASSUME NEW q \in RgIds PROVE EntryInv(q)' /\ MessageInv(q)' /\ StandingInv(q)'
    <3>1. EntryInv(q) /\ MessageInv(q) /\ StandingInv(q)
      BY Zenon DEF RgIInv
    <3>2. (Pending("create", q)' <=> Pending("create", q)) /\ (Pending("delete", q)' <=> Pending("delete", q))
      BY SMTT(30), <2>1, <1>1 DEF Pending
    <3>3. CASE q # r
      BY SMTT(30), <3>1, <3>2, <3>3, <2>1, <2>2, <1>1 DEF EntryInv, MessageInv, StandingInv, Has
    <3>4. CASE q = r
      BY Zenon, <3>1, <3>2, <3>4, <2>1, <2>2, <1>1, <1>4, <1>5 DEF EntryInv, MessageInv, StandingInv, Has
    <3> QED
      BY Zenon, <3>3, <3>4
  <2> QED
    BY Zenon, <2>3, <2>4, <2>5 DEF RgIInv
<1>6. CASE rgMap[r] # "absent"
  <2>1. rgMap[r] = "null"
    BY Zenon, <1>1, <1>2, <1>6 DEF EntryInv
  <2>2. /\ rgReg' = [rgReg EXCEPT ![r] = "refused"] /\ rgMap' = [rgMap EXCEPT ![r] = "absent"]
        /\ rgMutex' = Tail(rgMutex) /\ (rgFailed' <=> rgFailed)
    BY Zenon, <1>6, <2>1 DEF OnCreateRegistration
  <2>3. /\ rgReg'[r] = "refused" /\ rgMap'[r] = "absent"
        /\ \A q \in RgIds : q # r => rgReg'[q] = rgReg[q] /\ rgMap'[q] = rgMap[q]
    BY Zenon, <2>2 DEF RgIInv, RgTypeOK
  <2>4. /\ rgMutex' \in Seq(RgHandlers)
        /\ \A x \in RgHandlers : InSeq(rgMutex', x) => InSeq(rgMutex, x)
        /\ \A x \in RgHandlers : (InSeq(rgMutex, x) /\ x # <<"create", r>>) => InSeq(rgMutex', x)
        /\ \A x \in RgHandlers : Once(rgMutex, x) => Once(rgMutex', x)
    BY Zenon, <2>2, <1>1, <1>3, MutexShrinks DEF RgIInv
  <2>5. RgTypeOK'
    BY Zenon, <2>2, <2>4, <1>1 DEF RgIInv, RgTypeOK
  <2>6. GoneInv' /\ RgGuaranteesHold'
    BY Zenon, <2>2, <1>1, <1>4 DEF RgIInv, GoneInv, RgGuaranteesHold
  <2>7. EntryInv(r)' /\ MessageInv(r)' /\ StandingInv(r)'
    <3>1. rgClient[r].st = "gone" /\ ~ Pending("delete", r)
      BY Zenon, <2>1, <1>2 DEF EntryInv
    <3>2. ~ Pending("delete", r)' /\ <<"delete", r>> \notin rgNet'
      BY Zenon, <3>1, <2>4, <1>1, <1>3 DEF Pending
    <3>3. ~ InSeq(rgPool', r) /\ ~ InSeq(rgMutex', <<"end", r>>)
      BY Zenon, <2>4, <1>1, <1>2, <1>3 DEF EntryInv
    <3>4. Once(rgMutex', <<"delete", r>>)
      BY Zenon, <2>4, <1>2, <1>3 DEF MessageInv
    <3> QED
      BY SMTT(30), <3>1, <3>2, <3>3, <3>4, <2>3, <1>1 DEF EntryInv, MessageInv, StandingInv
  <2>8. ASSUME NEW q \in RgIds, q # r PROVE EntryInv(q)' /\ MessageInv(q)' /\ StandingInv(q)'
    BY Zenon, <2>2, <2>3, <2>8, <1>1, HandlerLeavesOthers
  <2> QED
    BY SMTT(30), <2>5, <2>6, <2>7, <2>8 DEF RgIInv
<1> QED
  BY Zenon, <1>5, <1>6

(* A message joins the ordered pool.                                       *)
LEMMA PoolGrows ==
    ASSUME RgTypeOK, NEW r \in RgIds, rgPool' = Append(rgPool, r)
    PROVE  rgPool' \in Seq(RgIds) /\ \A q \in RgIds : InSeq(rgPool', q) <=> (InSeq(rgPool, q) \/ q = r)
<1>1. PICK s : s = rgPool
  BY Zenon
<1>2. s \in Seq(RgIds)
  BY Zenon, <1>1 DEF RgTypeOK
<1> QED
  BY Zenon, <1>1, <1>2, AppendToSeq

(* ActiveRegistration keeps the inductive invariant.                       *)
LEMMA ActiveRegistrationKeeps ==
    ASSUME RgIInv, NEW r \in RgIds, ActiveRegistration(r)
    PROVE  RgIInv'
<1>1. /\ Has("create", r) /\ rgReg[r] = "building" /\ rgMap' = [rgMap EXCEPT ![r] = "cond"]
      /\ rgMutex' = Tail(rgMutex) /\ UNCHANGED <<rgConn, rgClient, rgNet, rgFailed>>
      /\ rgMutex # <<>> /\ Head(rgMutex) = <<"create", r>>
  BY Zenon DEF ActiveRegistration, Has
<1>2. EntryInv(r) /\ MessageInv(r) /\ StandingInv(r)
  BY Zenon DEF RgIInv
<1>3. <<"create", r>> \in RgHandlers /\ <<"delete", r>> \in RgHandlers /\ <<"end", r>> \in RgHandlers
  BY Zenon, HandlersAre
<1>4. /\ rgReg'[r] = (IF rgConn.st = "up" THEN "active" ELSE "queued") /\ rgMap'[r] = "cond"
      /\ \A q \in RgIds : q # r => rgReg'[q] = rgReg[q] /\ rgMap'[q] = rgMap[q]
      /\ rgReg' \in [RgIds -> {"none", "building", "active", "queued", "ended", "refused"}]
  BY Zenon, <1>1 DEF ActiveRegistration, RgIInv, RgTypeOK
<1>5. /\ rgPool' \in Seq(RgIds) /\ \A q \in RgIds : InSeq(rgPool', q) => (InSeq(rgPool, q) \/ q = r)
      /\ rgConn.st = "up" => rgPool' = rgPool
  BY Zenon, PoolGrows DEF ActiveRegistration, RgIInv, RgTypeOK
<1>6. /\ rgMutex' \in Seq(RgHandlers)
      /\ \A x \in RgHandlers : InSeq(rgMutex', x) => InSeq(rgMutex, x)
      /\ \A x \in RgHandlers : (InSeq(rgMutex, x) /\ x # <<"create", r>>) => InSeq(rgMutex', x)
      /\ \A x \in RgHandlers : Once(rgMutex, x) => Once(rgMutex', x)
  <2>1. rgMutex # <<>> /\ Head(rgMutex) = <<"create", r>> /\ rgMutex' = Tail(rgMutex) /\ RgTypeOK
    BY Zenon, <1>1 DEF RgIInv
  <2> QED
    BY Zenon, <2>1, <1>3, MutexShrinks
<1>7. RgTypeOK'
  BY Zenon, <1>1, <1>4, <1>5, <1>6 DEF RgIInv, RgTypeOK
<1>8. GoneInv' /\ RgGuaranteesHold'
  BY Zenon, <1>1 DEF RgIInv, GoneInv, RgGuaranteesHold
<1>9. EntryInv(r)' /\ MessageInv(r)' /\ StandingInv(r)'
  <2>1. Pending("delete", r)' <=> Pending("delete", r)
    BY Zenon, <1>1, <1>3, <1>6 DEF Pending
  <2>2. ~ InSeq(rgPool, r) /\ ~ InSeq(rgMutex', <<"end", r>>)
    BY Zenon, <1>1, <1>2, <1>3, <1>6 DEF EntryInv
  <2>3. Once(rgMutex', <<"delete", r>>) /\ (<<"delete", r>> \in rgNet => ~ InSeq(rgMutex', <<"delete", r>>))
    BY Zenon, <1>2, <1>3, <1>6 DEF MessageInv
  <2>4. rgClient[r].st # "unborn"
    BY SMTT(30), <1>1, <1>2 DEF MessageInv
  <2>5. EntryInv(r)'
    BY SMTT(30), <2>1, <2>2, <1>1, <1>2, <1>4, <1>5 DEF EntryInv
  <2>6. MessageInv(r)' /\ StandingInv(r)'
    BY Zenon, <2>1, <2>3, <2>4, <1>1, <1>2, <1>4 DEF MessageInv, StandingInv
  <2> QED
    BY Zenon, <2>5, <2>6
<1>10. ASSUME NEW q \in RgIds, q # r PROVE EntryInv(q)' /\ MessageInv(q)' /\ StandingInv(q)'
  BY Zenon, <1>1, <1>4, <1>5, <1>10, HandlerLeavesOthers
<1> QED
  BY Zenon, <1>7, <1>8, <1>9, <1>10 DEF RgIInv

(* OnDeleteRegistration keeps the inductive invariant.                     *)
LEMMA OnDeleteRegistrationKeeps ==
    ASSUME RgIInv, NEW r \in RgIds, OnDeleteRegistration(r)
    PROVE  RgIInv'
<1>1. /\ Has("delete", r) /\ rgMutex' = Tail(rgMutex) /\ UNCHANGED <<rgConn, rgClient, rgNet>>
      /\ rgMutex # <<>> /\ Head(rgMutex) = <<"delete", r>>
  BY Zenon DEF OnDeleteRegistration, Has
<1>2. EntryInv(r) /\ MessageInv(r) /\ StandingInv(r)
  BY Zenon DEF RgIInv
<1>3. <<"create", r>> \in RgHandlers /\ <<"delete", r>> \in RgHandlers /\ <<"end", r>> \in RgHandlers
  BY Zenon, HandlersAre
<1>4. /\ rgMutex' \in Seq(RgHandlers) /\ InSeq(rgMutex, <<"delete", r>>)
      /\ \A x \in RgHandlers : InSeq(rgMutex', x) => InSeq(rgMutex, x)
      /\ \A x \in RgHandlers : (InSeq(rgMutex, x) /\ x # <<"delete", r>>) => InSeq(rgMutex', x)
      /\ \A x \in RgHandlers : Once(rgMutex, x) => Once(rgMutex', x)
      /\ Once(rgMutex, <<"delete", r>>) => ~ InSeq(rgMutex', <<"delete", r>>)
  BY Zenon, <1>1, <1>3, MutexShrinks DEF RgIInv
<1>5. /\ Pending("delete", r) /\ rgClient[r].st = "gone" /\ rgMap[r] \in {"absent", "cond"}
      /\ ~ Pending("delete", r)' /\ <<"delete", r>> \notin rgNet
  BY Zenon, <1>1, <1>2, <1>4 DEF Pending, EntryInv, MessageInv, RgIInv, RgTypeOK
<1>6. rgReg[r] # "building"
  BY <1>1, <1>2 DEF EntryInv, Has
<1>7. Once(rgMutex', <<"delete", r>>) /\ (InSeq(rgMutex', <<"end", r>>) => InSeq(rgMutex, <<"end", r>>))
  BY Zenon, <1>2, <1>3, <1>4 DEF MessageInv
<1>8. CASE rgMap[r] = "absent"
  <2>1. rgMap' = [rgMap EXCEPT ![r] = "null"] /\ UNCHANGED <<rgReg, rgPool, rgFailed>>
    BY Zenon, <1>8 DEF OnDeleteRegistration
  <2>2. rgMap'[r] = "null" /\ \A q \in RgIds : q # r => rgMap'[q] = rgMap[q]
    BY Zenon, <2>1 DEF RgIInv, RgTypeOK
  <2>3. RgTypeOK' /\ RgGuaranteesHold'
    BY SMTT(30), <2>1, <1>1, <1>4 DEF RgIInv, RgTypeOK, RgGuaranteesHold
  <2>4. GoneInv'
    BY Zenon, <2>1, <1>1, <1>4, HandlersAre DEF RgIInv, GoneInv
  <2>5. EntryInv(r)' /\ MessageInv(r)' /\ StandingInv(r)'
    <3>1. rgReg[r] \notin {"active", "queued"}
      BY Zenon, <1>2, <1>8 DEF EntryInv
    <3>2. EntryInv(r)'
      BY Zenon, <3>1, <2>1, <2>2, <1>1, <1>2, <1>5, <1>6, <1>7, <1>8 DEF EntryInv
    <3>3. MessageInv(r)' /\ StandingInv(r)'
      BY SMTT(30), <3>1, <2>1, <2>2, <1>1, <1>5, <1>6, <1>7 DEF MessageInv, StandingInv
    <3> QED
      BY Zenon, <3>2, <3>3
  <2>6. ASSUME NEW q \in RgIds, q # r PROVE EntryInv(q)' /\ MessageInv(q)' /\ StandingInv(q)'
    BY Zenon, <2>1, <2>2, <2>6, <1>1, HandlerLeavesOthers
  <2> QED
    BY Zenon, <2>3, <2>4, <2>5, <2>6 DEF RgIInv
<1>9. CASE rgMap[r] = "cond"
  <2>1. /\ rgMap' = [rgMap EXCEPT ![r] = "pulsed"] /\ (rgFailed' <=> rgFailed) /\ RegistrationEnds(r)
    BY Zenon, <1>9 DEF OnDeleteRegistration
  <2>2. rgMap'[r] = "pulsed" /\ \A q \in RgIds : q # r => rgMap'[q] = rgMap[q]
    BY Zenon, <2>1 DEF RgIInv, RgTypeOK
  <2>3. rgReg[r] \in {"active", "queued"}
    BY Zenon, <1>2, <1>6, <1>9 DEF EntryInv, RgIInv, RgTypeOK
  <2>4. /\ rgReg'[r] = "queued" /\ \A q \in RgIds : q # r => rgReg'[q] = rgReg[q]
        /\ rgReg' \in [RgIds -> {"none", "building", "active", "queued", "ended", "refused"}]
    BY Zenon, <2>1, <2>3 DEF RegistrationEnds, RgIInv, RgTypeOK
  <2>5. rgPool' \in Seq(RgIds) /\ \A q \in RgIds : InSeq(rgPool', q) => (InSeq(rgPool, q) \/ q = r)
    BY Zenon, <2>1, PoolGrows DEF RegistrationEnds, RgIInv, RgTypeOK
  <2>6. RgTypeOK' /\ RgGuaranteesHold'
    BY Zenon, <2>1, <2>4, <2>5, <1>1, <1>4 DEF RgIInv, RgTypeOK, RgGuaranteesHold
  <2>7. GoneInv'
    BY Zenon, <2>3, <1>1 DEF RgIInv, GoneInv
  <2>8. EntryInv(r)' /\ MessageInv(r)' /\ StandingInv(r)'
    <3>1. EntryInv(r)'
      BY Zenon, <2>2, <2>4, <1>1, <1>5 DEF EntryInv
    <3>2. MessageInv(r)' /\ StandingInv(r)'
      BY SMTT(30), <2>2, <2>4, <1>1, <1>5, <1>7 DEF MessageInv, StandingInv
    <3> QED
      BY Zenon, <3>1, <3>2
  <2>9. ASSUME NEW q \in RgIds, q # r PROVE EntryInv(q)' /\ MessageInv(q)' /\ StandingInv(q)'
    BY Zenon, <2>2, <2>4, <2>5, <2>9, <1>1, HandlerLeavesOthers
  <2> QED
    BY Zenon, <2>6, <2>7, <2>8, <2>9 DEF RgIInv
<1> QED
  BY Zenon, <1>5, <1>8, <1>9


(* DestructionStarts keeps the inductive invariant.                        *)
LEMMA DestructionStartsKeeps ==
    ASSUME RgIInv, DestructionStarts
    PROVE  RgIInv'
<1>1. /\ rgPool # <<>> /\ rgPool' = Tail(rgPool) /\ rgMutex' = Append(rgMutex, <<"end", Head(rgPool)>>)
      /\ UNCHANGED <<rgConn, rgClient, rgNet, rgMap, rgReg, rgFailed>>
  BY Zenon DEF DestructionStarts
<1>2. PICK p : p = rgPool
  BY Zenon
<1>3. p \in Seq(RgIds) /\ p # <<>>
  BY Zenon, <1>1, <1>2 DEF RgIInv, RgTypeOK
<1>4. PICK r : r = Head(p)
  BY Zenon
<1>5. /\ r \in RgIds /\ rgPool' \in Seq(RgIds) /\ InSeq(rgPool, r)
      /\ \A x \in RgIds : InSeq(rgPool', x) => InSeq(rgPool, x)
  BY Zenon, <1>1, <1>2, <1>3, <1>4, TailOfSeq
<1>6. <<"end", r>> \in RgHandlers /\ rgMutex' = Append(rgMutex, <<"end", r>>)
  BY Zenon, <1>1, <1>2, <1>4, <1>5, HandlersAre
<1>7. /\ rgMutex' \in Seq(RgHandlers) /\ rgMutex' # <<>>
      /\ \A x \in RgHandlers : InSeq(rgMutex', x) <=> (InSeq(rgMutex, x) \/ x = <<"end", r>>)
      /\ \A x \in RgHandlers : (Once(rgMutex, x) /\ x # <<"end", r>>) => Once(rgMutex', x)
      /\ rgMutex # <<>> => Head(rgMutex') = Head(rgMutex)
  BY Zenon, <1>6, MutexGrows DEF RgIInv
<1>8. RgTypeOK' /\ RgGuaranteesHold'
  BY SMTT(30), <1>1, <1>5, <1>7 DEF RgIInv, RgTypeOK, RgGuaranteesHold
<1>9. GoneInv'
  BY Zenon, <1>1, <1>7, HandlersAre DEF RgIInv, GoneInv
<1>10. ASSUME NEW q \in RgIds PROVE EntryInv(q)' /\ MessageInv(q)' /\ StandingInv(q)'
  <2>1. EntryInv(q) /\ MessageInv(q) /\ StandingInv(q) /\ EntryInv(r)
    BY Zenon, <1>5 DEF RgIInv
  <2>2. <<"create", q>> \in RgHandlers /\ <<"delete", q>> \in RgHandlers /\ <<"end", q>> \in RgHandlers
    BY Zenon, HandlersAre
  <2>3. (Pending("create", q)' <=> Pending("create", q)) /\ (Pending("delete", q)' <=> Pending("delete", q))
    BY Zenon, <2>2, <1>1, <1>7 DEF Pending
  <2>4. InSeq(rgMutex', <<"delete", q>>) <=> InSeq(rgMutex, <<"delete", q>>)
    BY Zenon, <2>2, <1>7
  <2>5. Has("create", q) => Has("create", q)'
    BY Zenon, <1>7 DEF Has
  <2>6. Once(rgMutex', <<"delete", q>>)
    BY SMTT(30), <2>1, <2>2, <1>7 DEF MessageInv
  <2>7. (InSeq(rgPool', q) \/ InSeq(rgMutex', <<"end", q>>)) => rgReg[q] \in {"queued", "ended"}
    BY Zenon, <2>1, <2>2, <1>5, <1>7 DEF EntryInv
  <2>8. EntryInv(q)'
    BY Zenon, <2>1, <2>3, <2>5, <2>7, <1>1 DEF EntryInv
  <2>9. MessageInv(q)' /\ StandingInv(q)'
    BY Zenon, <2>1, <2>3, <2>4, <2>6, <1>1 DEF MessageInv, StandingInv
  <2> QED
    BY Zenon, <2>8, <2>9
<1> QED
  BY Zenon, <1>8, <1>9, <1>10 DEF RgIInv

(* RegistrationIsDestroyed keeps the inductive invariant.                  *)
LEMMA RegistrationIsDestroyedKeeps ==
    ASSUME RgIInv, NEW r \in RgIds, RegistrationIsDestroyed(r)
    PROVE  RgIInv'
<1>1. /\ Has("end", r) /\ rgMutex # <<>> /\ Head(rgMutex) = <<"end", r>>
      /\ rgMutex' = Tail(rgMutex) /\ rgMap' = [rgMap EXCEPT ![r] = "absent"]
      /\ rgReg' = [rgReg EXCEPT ![r] = "ended"]
      /\ UNCHANGED <<rgConn, rgClient, rgNet, rgPool, rgFailed>>
  BY Zenon DEF RegistrationIsDestroyed, Has
<1>2. EntryInv(r) /\ MessageInv(r) /\ StandingInv(r)
  BY Zenon DEF RgIInv
<1>3. <<"create", r>> \in RgHandlers /\ <<"delete", r>> \in RgHandlers /\ <<"end", r>> \in RgHandlers
  BY Zenon, HandlersAre
<1>4. /\ rgMutex' \in Seq(RgHandlers) /\ InSeq(rgMutex, <<"end", r>>)
      /\ \A x \in RgHandlers : InSeq(rgMutex', x) => InSeq(rgMutex, x)
      /\ \A x \in RgHandlers : (InSeq(rgMutex, x) /\ x # <<"end", r>>) => InSeq(rgMutex', x)
      /\ \A x \in RgHandlers : Once(rgMutex, x) => Once(rgMutex', x)
  BY Zenon, <1>1, <1>3, MutexShrinks DEF RgIInv
<1>5. /\ rgMap'[r] = "absent" /\ rgReg'[r] = "ended"
      /\ \A q \in RgIds : q # r => rgMap'[q] = rgMap[q] /\ rgReg'[q] = rgReg[q]
  BY Zenon, <1>1 DEF RgIInv, RgTypeOK
<1>6. rgReg[r] \in {"queued", "ended"}
  BY Zenon, <1>2, <1>4 DEF EntryInv
<1>7. RgTypeOK' /\ RgGuaranteesHold'
  BY SMTT(30), <1>1, <1>4 DEF RgIInv, RgTypeOK, RgGuaranteesHold
<1>8. GoneInv'
  BY Zenon, <1>1, <1>4, <1>5, HandlersAre DEF RgIInv, GoneInv
<1>9. EntryInv(r)' /\ MessageInv(r)' /\ StandingInv(r)'
  <2>1. (Pending("create", r)' <=> Pending("create", r)) /\ (Pending("delete", r)' <=> Pending("delete", r))
    BY SMTT(30), <1>1, <1>3, <1>4 DEF Pending
  <2>2. Once(rgMutex', <<"delete", r>>) /\ (<<"delete", r>> \in rgNet => ~ InSeq(rgMutex', <<"delete", r>>))
    BY SMTT(30), <1>2, <1>3, <1>4 DEF MessageInv
  <2>3. EntryInv(r)'
    BY SMTT(30), <1>5 DEF EntryInv
  <2>4. MessageInv(r)'
    BY Zenon, <2>1, <2>2, <1>1, <1>2, <1>6 DEF MessageInv
  <2>5. StandingInv(r)'
    BY Zenon, <1>1, <1>2, <1>5, <1>6 DEF StandingInv
  <2> QED
    BY Zenon, <2>3, <2>4, <2>5
<1>10. ASSUME NEW q \in RgIds, q # r PROVE EntryInv(q)' /\ MessageInv(q)' /\ StandingInv(q)'
  BY Zenon, <1>1, <1>5, <1>10, HandlerLeavesOthers
<1> QED
  BY Zenon, <1>7, <1>8, <1>9, <1>10 DEF RgIInv

(* PeerMonitorPulsed keeps the inductive invariant.                        *)
LEMMA PeerMonitorPulsedKeeps ==
    ASSUME RgIInv, NEW r \in RgIds, PeerMonitorPulsed(r)
    PROVE  RgIInv'
<1>1. /\ rgConn.st = "closing" /\ rgReg[r] = "active" /\ rgReg' = [rgReg EXCEPT ![r] = "queued"]
      /\ rgPool' = Append(rgPool, r) /\ UNCHANGED <<rgConn, rgClient, rgNet, rgMutex, rgMap, rgFailed>>
  BY Zenon DEF PeerMonitorPulsed, RegistrationEnds
<1>2. rgReg'[r] = "queued" /\ \A q \in RgIds : q # r => rgReg'[q] = rgReg[q]
  BY Zenon, <1>1 DEF RgIInv, RgTypeOK
<1>3. rgPool' \in Seq(RgIds) /\ \A q \in RgIds : InSeq(rgPool', q) <=> (InSeq(rgPool, q) \/ q = r)
  BY SMTT(30), <1>1, PoolGrows DEF RgIInv
<1>4. RgTypeOK' /\ GoneInv' /\ RgGuaranteesHold'
  BY Zenon, <1>1, <1>3 DEF RgIInv, RgTypeOK, GoneInv, RgGuaranteesHold
<1>5. ASSUME NEW q \in RgIds PROVE EntryInv(q)' /\ MessageInv(q)' /\ StandingInv(q)'
  <2>1. EntryInv(q) /\ MessageInv(q)
    BY Zenon DEF RgIInv
  <2>2. (Pending("create", q)' <=> Pending("create", q)) /\ (Pending("delete", q)' <=> Pending("delete", q))
    BY SMTT(30), <1>1 DEF Pending
  <2>3. StandingInv(q)'
    BY SMTT(30), <1>1 DEF StandingInv
  <2>4. EntryInv(q)' /\ MessageInv(q)'
    BY Zenon, <2>1, <2>2, <1>1, <1>2, <1>3 DEF EntryInv, MessageInv, Has
  <2> QED
    BY Zenon, <2>3, <2>4
<1> QED
  BY Zenon, <1>4, <1>5 DEF RgIInv


(* Connection keeps the inductive invariant.                               *)
LEMMA ConnectionKeeps ==
    ASSUME RgIInv, ConnectionBreaks \/ ConnectionIsGone \/ Reconnect
    PROVE  RgIInv'
<1>1. UNCHANGED <<rgClient, rgMutex, rgPool, rgMap, rgReg, rgFailed>> /\ rgNet' \in {rgNet, {}}
  BY Zenon DEF ConnectionBreaks, ConnectionIsGone, Reconnect
<1>2. /\ rgConn' \in [n : 1 .. RgMaxConns, st : {"up", "closing", "down"}] /\ rgConn'.n >= rgConn.n
      /\ rgConn'.st = "up" => rgConn.st = "down" /\ rgConn'.n = rgConn.n + 1
  BY RgAssumption DEF RgIInv, RgTypeOK, ConnectionBreaks, ConnectionIsGone, Reconnect
<1>3. RgTypeOK' /\ RgGuaranteesHold'
  BY Zenon, <1>1, <1>2 DEF RgIInv, RgTypeOK, RgGuaranteesHold
<1>4. rgConn'.st # "up" => rgNet' = {}
  <2>1. CASE ConnectionBreaks
    BY Zenon, <2>1 DEF ConnectionBreaks
  <2>2. CASE ConnectionIsGone
    BY Zenon, <2>2 DEF ConnectionIsGone, Drained, RgIInv, GoneInv
  <2>3. CASE Reconnect
    BY Zenon, <2>3 DEF Reconnect
  <2> QED
    BY Zenon, <2>1, <2>2, <2>3
<1>5. \A r \in RgIds : rgClient'[r].conn <= rgConn'.n
  BY <1>1, <1>2 DEF RgIInv, RgTypeOK, RgClients, GoneInv
<1>6. ASSUME rgConn'.st = "down", NEW r \in RgIds
      PROVE  /\ rgReg'[r] \notin {"building", "active", "queued"}
             /\ ~ InSeq(rgMutex', <<"create", r>>) /\ ~ InSeq(rgMutex', <<"delete", r>>)
  <2>1. ConnectionIsGone
    BY <1>6 DEF RgIInv, RgTypeOK, ConnectionBreaks, Reconnect
  <2>2. DOMAIN rgMutex = 1 .. Len(rgMutex)
    BY DEF RgIInv, RgTypeOK
  <2> QED
    BY <2>1, <2>2, <1>1 DEF ConnectionIsGone, Drained, InSeq
<1>7. GoneInv'
  BY Zenon, <1>4, <1>5, <1>6 DEF GoneInv
<1>8. ASSUME NEW q \in RgIds PROVE EntryInv(q)' /\ MessageInv(q)' /\ StandingInv(q)'
  <2>1. EntryInv(q) /\ MessageInv(q)
    BY Zenon DEF RgIInv
  <2>2. (Pending("create", q)' => Pending("create", q)) /\ (Pending("delete", q)' => Pending("delete", q))
    BY SMTT(30), <1>1 DEF Pending
  <2>3. EntryInv(q)' /\ MessageInv(q)'
    BY Zenon, <2>1, <2>2, <1>1 DEF EntryInv, MessageInv, Has
  <2>4. StandingInv(q)'
    <3> SUFFICES ASSUME rgConn'.st = "up" PROVE StandingInv(q)'
      BY Zenon DEF StandingInv
    <3>0. rgConn.n \in Nat /\ rgClient[q].conn \in Nat
      BY SMTT(30) DEF RgIInv, RgTypeOK, RgClients
    <3>1. /\ rgConn.st = "down" /\ rgConn'.n = rgConn.n + 1 /\ rgNet = {}
          /\ rgClient[q].conn <= rgConn.n
          /\ rgReg[q] \notin {"building", "active", "queued"} /\ ~ InSeq(rgMutex, <<"create", q>>)
      BY Zenon, <1>2 DEF RgIInv, GoneInv
    <3>2. rgClient[q].conn # rgConn'.n
      BY <3>0, <3>1
    <3>3. ~ Pending("create", q)'
      BY Zenon, <2>2, <3>1 DEF Pending
    <3> QED
      BY SMTT(30), <3>1, <3>2, <3>3, <1>1 DEF StandingInv
  <2> QED
    BY Zenon, <2>3, <2>4
<1> QED
  BY Zenon, <1>3, <1>7, <1>8 DEF RgIInv

(* Every step keeps the inductive invariant.                               *)
LEMMA StepRgIInv ==
    ASSUME RgIInv, [RgNext]_rgVars
    PROVE  RgIInv'
<1>1. CASE UNCHANGED rgVars
  <2>1. RgTypeOK' /\ RgGuaranteesHold' /\ GoneInv'
    BY SMTT(30), <1>1 DEF rgVars, RgIInv, RgTypeOK, RgGuaranteesHold, GoneInv
  <2>2. \A q \in RgIds : EntryInv(q)'
    BY Zenon, <1>1 DEF rgVars, RgIInv, EntryInv, Pending, Has
  <2>3. \A q \in RgIds : MessageInv(q)'
    BY Zenon, <1>1 DEF rgVars, RgIInv, MessageInv, Pending
  <2>4. \A q \in RgIds : StandingInv(q)'
    BY Zenon, <1>1 DEF rgVars, RgIInv, StandingInv, Pending
  <2> QED
    BY Zenon, <2>1, <2>2, <2>3, <2>4 DEF RgIInv
<1>2. ASSUME NEW r \in RgIds,
             \/ Register(r) \/ SendDeregisterMessage(r)
             \/ OnCreateRegistration(r) \/ ActiveRegistration(r) \/ OnDeleteRegistration(r)
             \/ RegistrationIsDestroyed(r) \/ PeerMonitorPulsed(r)
      PROVE  RgIInv'
  BY Zenon, <1>2, RegisterKeeps, SendDeregisterKeeps, OnCreateRegistrationKeeps, ActiveRegistrationKeeps,
     OnDeleteRegistrationKeeps, RegistrationIsDestroyedKeeps, PeerMonitorPulsedKeeps
<1>3. ASSUME NEW m \in rgNet, MailboxReads(m) PROVE RgIInv'
  BY Zenon, <1>3, MailboxReadsKeeps
<1>4. CASE DestructionStarts
  BY Zenon, <1>4, DestructionStartsKeeps
<1>5. CASE ConnectionBreaks \/ ConnectionIsGone \/ Reconnect
  BY Zenon, <1>5, ConnectionKeeps
<1> QED
  BY Zenon, <1>1, <1>2, <1>3, <1>4, <1>5 DEF RgNext

(* The inductive invariant implies RgInv.                                  *)
LEMMA RgIInvIsEnough == RgIInv => RgInv
<1> SUFFICES ASSUME RgIInv PROVE RgInv
  BY Zenon
<1>1. RgGuaranteesHold /\ NoZombies
  BY Zenon DEF RgIInv, GoneInv, NoZombies
<1>2. ASSUME rgConn.st = "up", rgNet = {}, rgMutex = <<>>, rgPool = <<>>, NEW r \in RgIds
      PROVE  /\ rgClient[r].st = "gone" => rgReg[r] # "active"
             /\ rgClient[r] = [st |-> "registered", conn |-> rgConn.n] => rgReg[r] = "active"
  <2>1. EntryInv(r) /\ StandingInv(r)
    BY Zenon DEF RgIInv
  <2>2. ~ Pending("create", r) /\ ~ Pending("delete", r) /\ ~ Has("create", r)
    BY <1>2 DEF Pending, InSeq, Has
  <2> QED
    BY Zenon, <2>1, <2>2, <1>2 DEF EntryInv, StandingInv
<1> QED
  BY Zenon, <1>1, <1>2 DEF RgInv, RgAgreement

\* registrar_t with registrant_t, for any number of registrants and of
\* connections: however the two messages of a registrant overtake each other and
\* whenever the connection breaks, no guarantee() of on_create() or on_delete()
\* fails, no registration outlives its connection, and at rest the controller
\* has a registrant for exactly those who registered and are not gone.
THEOREM RegistrarIsRight == RgSpec => []RgInv
<1>1. RgSpec => []RgIInv
  BY InitRgIInv, StepRgIInv, PTL DEF RgSpec
<1> QED
  BY <1>1, RgIInvIsEnough, PTL

--------------------------------------------------------------------------------
(* DirectoryMap: the inductive invariant                                   *)

\* What is sent at one timestamp has one value, and what is sent at the writer's
\* present one has its present value
TimesTellValues ==
    /\ \A m \in dmNet : m.ts \in 1 .. dmTimestamp
    /\ \A m, n \in dmNet : (m.key = n.key /\ m.ts = n.ts) => m.val = n.val
    /\ \A m \in dmNet : m.ts = dmTimestamp => m.val = dmValue[m.key]
    /\ \A m \in dmNet : m.ts = dmTimestamps.of[m.key] => m.val = dmMap[m.key]
    /\ \A k \in DmKeys :
         /\ dmTimestamps.of[k] <= dmTimestamp
         /\ (dmTimestamps.of[k] = dmTimestamp /\ dmTimestamp # 0) => dmMap[k] = dmValue[k]
         /\ dmValue[k] <= dmTimestamp
    /\ dmStream.dirty \cup dmStream.batch # {} => dmTimestamp # 0

\* The reader has the value of k, or it is on its way and nothing will supersede it
Arrives(k) ==
    \/ dmMap[k] = dmValue[k] /\ \A m \in dmNet : m.key = k => m.ts <= dmTimestamps.of[k]
    \/ \E m \in dmNet :
         /\ m.key = k /\ m.val = dmValue[k] /\ m.ts > dmTimestamps.of[k]
         /\ \A n \in dmNet : n.key = k => n.ts <= m.ts

CleanKeysArrive ==
    Streaming => \A k \in DmKeys \ (dmStream.dirty \cup dmStream.batch) : Arrives(k)

\* Before anything is sent over a connection nothing of an earlier one is left
FreshConnections ==
    /\ ~ dmTimestamps.exists => dmTimestamps.of = NoValues /\ dmMap = NoValues
    /\ (dmConn.st = "down" \/ (dmConn.st = "up" /\ dmStream.conn # dmConn.n)) =>
         dmNet = {} /\ ~ dmTimestamps.exists
    /\ dmStream.conn <= dmConn.n

DmIInv == DmTypeOK /\ TimesTellValues /\ CleanKeysArrive /\ FreshConnections

DmMessages == [ts : DmTimes, key : DmKeys, val : DmTimes]

(* The types of the values, timestamps and messages.                       *)
LEMMA DmTypes ==
    ASSUME DmIInv
    PROVE  /\ dmTimestamp \in Nat /\ DmMaxChanges \in Nat /\ DmMaxConns \in Nat
           /\ dmConn.n \in Nat /\ dmStream.conn \in Nat
           /\ \A k \in DmKeys : dmValue[k] \in Nat /\ dmTimestamps.of[k] \in Nat /\ dmMap[k] \in Nat
           /\ \A m \in dmNet : m \in DmMessages /\ m.ts \in Nat /\ m.val \in Nat /\ m.key \in DmKeys
BY DmAssumption DEF DmIInv, DmTypeOK, DmTimes, DmMessages

(* The inductive invariant holds at the start.                             *)
LEMMA InitDmIInv == DmInit => DmIInv
<1> SUFFICES ASSUME DmInit PROVE DmIInv
  BY Zenon
<1>1. NoValues \in [DmKeys -> DmTimes] /\ 0 \in DmTimes /\ \A k \in DmKeys : NoValues[k] = 0
  BY DmAssumption DEF NoValues, DmTimes
<1>2. DmTypeOK
  BY <1>1, DmAssumption DEF DmInit, DmTypeOK, NoTimestamps
<1>3. TimesTellValues
  BY <1>1 DEF DmInit, TimesTellValues, NoTimestamps
<1>4. CleanKeysArrive /\ FreshConnections
  BY <1>1, DmAssumption DEF DmInit, CleanKeysArrive, FreshConnections, Streaming, NoTimestamps
<1> QED
  BY Zenon, <1>2, <1>3, <1>4 DEF DmIInv

(* KeyChanges keeps the inductive invariant.                               *)
LEMMA KeyChangesKeeps ==
    ASSUME DmIInv, NEW k \in DmKeys, NEW v \in {dmTimestamp + 1, 0}, KeyChanges(k, v)
    PROVE  DmIInv'
<1>1. /\ dmTimestamp < DmMaxChanges /\ dmTimestamp' = dmTimestamp + 1
      /\ dmValue' = [dmValue EXCEPT ![k] = v]
      /\ dmStream' = [dmStream EXCEPT !.dirty = @ \cup {k}]
      /\ UNCHANGED <<dmConn, dmNet, dmTimestamps, dmMap>>
  BY Zenon DEF KeyChanges
<1>2. /\ dmStream'.conn = dmStream.conn /\ dmStream'.batch = dmStream.batch
      /\ dmStream'.dirty = dmStream.dirty \cup {k}
  BY Zenon, <1>1 DEF DmIInv, DmTypeOK
<1>3. dmTimestamp' \in DmTimes /\ v \in DmTimes /\ v <= dmTimestamp' /\ v \in Nat
  BY <1>1, DmTypes DEF DmTimes
<1>4. dmValue'[k] = v /\ \A j \in DmKeys : j # k => dmValue'[j] = dmValue[j]
  BY Zenon, <1>1 DEF DmIInv, DmTypeOK
<1>5. DmTypeOK'
  <2>1. dmValue' \in [DmKeys -> DmTimes]
    BY Zenon, <1>1, <1>3 DEF DmIInv, DmTypeOK
  <2>2. dmStream' \in [conn : 0 .. DmMaxConns, dirty : SUBSET DmKeys, batch : SUBSET DmKeys]
    BY Zenon, <1>1 DEF DmIInv, DmTypeOK
  <2> QED
    BY Zenon, <1>1, <1>3, <2>1, <2>2 DEF DmIInv, DmTypeOK
<1>6. TimesTellValues'
  <2>1. \A m \in dmNet : m.ts \in 1 .. dmTimestamp' /\ m.ts # dmTimestamp'
    BY <1>1, DmTypes DEF DmIInv, TimesTellValues
  <2>2. \A j \in DmKeys : dmTimestamps.of[j] < dmTimestamp' /\ dmValue'[j] <= dmTimestamp'
    BY <1>1, <1>3, <1>4, DmTypes DEF DmIInv, TimesTellValues
  <2>3. dmTimestamp' # 0
    BY <1>1, DmTypes
  <2> QED
    BY <1>1, <2>1, <2>2, <2>3, DmTypes DEF DmIInv, TimesTellValues
<1>7. CleanKeysArrive'
  BY <1>1, <1>2, <1>4 DEF DmIInv, CleanKeysArrive, Streaming, Arrives
<1>8. FreshConnections'
  BY Zenon, <1>1, <1>2 DEF DmIInv, FreshConnections
<1> QED
  BY Zenon, <1>5, <1>6, <1>7, <1>8 DEF DmIInv

(* MapOnConnectionChange keeps the inductive invariant.                    *)
LEMMA MapOnConnectionChangeKeeps ==
    ASSUME DmIInv, MapOnConnectionChange
    PROVE  DmIInv'
<1> DEFINE set == {k \in DmKeys : dmValue[k] # 0}
<1>1. /\ dmConn.st = "up" /\ dmStream.conn # dmConn.n
      /\ dmStream'.conn = dmConn.n /\ dmStream'.dirty = set /\ dmStream'.batch = {}
      /\ UNCHANGED <<dmConn, dmValue, dmTimestamp, dmNet, dmTimestamps, dmMap>>
  BY Zenon DEF MapOnConnectionChange
<1>2. dmNet = {} /\ dmTimestamps.of = NoValues /\ dmMap = NoValues
  BY Zenon, <1>1 DEF DmIInv, FreshConnections
<1>3. DmTypeOK'
  <2>1. dmStream' \in [conn : 0 .. DmMaxConns, dirty : SUBSET DmKeys, batch : SUBSET DmKeys]
    BY DmAssumption DEF MapOnConnectionChange, DmIInv, DmTypeOK
  <2> QED
    BY Zenon, <1>1, <2>1 DEF DmIInv, DmTypeOK
<1>4. TimesTellValues'
  <2>1. set # {} => dmTimestamp # 0
    BY DmTypes DEF DmIInv, TimesTellValues
  <2> QED
    BY Zenon, <1>1, <1>2, <2>1 DEF DmIInv, TimesTellValues
<1>5. CleanKeysArrive'
  BY Zenon, <1>1, <1>2 DEF CleanKeysArrive, Arrives, NoValues
<1>6. FreshConnections'
  BY <1>1, DmTypes DEF DmIInv, FreshConnections
<1> QED
  BY Zenon, <1>3, <1>4, <1>5, <1>6 DEF DmIInv

(* CopyDirtyKeys keeps the inductive invariant.                            *)
LEMMA CopyDirtyKeysKeeps ==
    ASSUME DmIInv, CopyDirtyKeys
    PROVE  DmIInv'
<1>1. /\ dmStream' = [dmStream EXCEPT !.batch = dmStream.dirty, !.dirty = {}]
      /\ dmStream.batch = {}
      /\ UNCHANGED <<dmConn, dmValue, dmTimestamp, dmNet, dmTimestamps, dmMap>>
  BY Zenon DEF CopyDirtyKeys
<1>2. /\ dmStream'.conn = dmStream.conn /\ dmStream'.batch = dmStream.dirty /\ dmStream'.dirty = {}
      /\ dmStream' \in [conn : 0 .. DmMaxConns, dirty : SUBSET DmKeys, batch : SUBSET DmKeys]
  BY Zenon, <1>1 DEF DmIInv, DmTypeOK
<1>3. dmStream'.dirty \cup dmStream'.batch = dmStream.dirty \cup dmStream.batch
  BY Zenon, <1>1, <1>2
<1>4. DmTypeOK' /\ TimesTellValues'
  BY <1>1, <1>2, <1>3 DEF DmIInv, DmTypeOK, TimesTellValues
<1>5. CleanKeysArrive' /\ FreshConnections'
  BY <1>1, <1>2, <1>3 DEF DmIInv, CleanKeysArrive, FreshConnections, Streaming, Arrives
<1> QED
  BY Zenon, <1>4, <1>5 DEF DmIInv

(* SendKey keeps the inductive invariant.                                  *)
LEMMA SendKeyKeeps ==
    ASSUME DmIInv, NEW k \in DmKeys, SendKey(k)
    PROVE  DmIInv'
<1>1. PICK m : m = [ts |-> dmTimestamp, key |-> k, val |-> dmValue[k]]
  BY Zenon
<1>2. /\ Streaming /\ k \in dmStream.batch /\ dmNet' = dmNet \cup {m}
      /\ dmStream' = [dmStream EXCEPT !.batch = @ \ {k}, !.dirty = @ \ {k}]
      /\ UNCHANGED <<dmConn, dmValue, dmTimestamp, dmTimestamps, dmMap>>
  BY Zenon, <1>1 DEF SendKey
<1>3. /\ dmStream'.conn = dmStream.conn /\ dmStream'.batch = dmStream.batch \ {k}
      /\ dmStream'.dirty = dmStream.dirty \ {k}
      /\ dmStream' \in [conn : 0 .. DmMaxConns, dirty : SUBSET DmKeys, batch : SUBSET DmKeys]
  BY Zenon, <1>2 DEF DmIInv, DmTypeOK
<1>4. m.ts = dmTimestamp /\ m.key = k /\ m.val = dmValue[k] /\ m \in DmMessages
  BY Zenon, <1>1 DEF DmIInv, DmTypeOK, DmMessages
<1>5. dmTimestamp \in Nat /\ dmTimestamp # 0
  BY Zenon, <1>2, DmTypes DEF DmIInv, TimesTellValues
<1>6. DmTypeOK'
  BY <1>2, <1>3, <1>4 DEF DmIInv, DmTypeOK, DmMessages
<1>7. TimesTellValues'
  <2>1. \A n \in dmNet' : n.ts \in 1 .. dmTimestamp
    BY <1>2, <1>4, <1>5 DEF DmIInv, TimesTellValues
  <2>2. \A n, l \in dmNet' : (n.key = l.key /\ n.ts = l.ts) => n.val = l.val
    BY <1>2, <1>4 DEF DmIInv, TimesTellValues
  <2>3. \A n \in dmNet' : n.ts = dmTimestamp => n.val = dmValue[n.key]
    BY Zenon, <1>2, <1>4 DEF DmIInv, TimesTellValues
  <2>4. \A n \in dmNet' : n.ts = dmTimestamps.of[n.key] => n.val = dmMap[n.key]
    BY Zenon, <1>2, <1>4, <1>5 DEF DmIInv, TimesTellValues
  <2> QED
    BY Zenon, <1>2, <1>3, <1>5, <2>1, <2>2, <2>3, <2>4 DEF DmIInv, TimesTellValues
<1>8. CleanKeysArrive'
  <2> SUFFICES ASSUME NEW j \in DmKeys, j \notin dmStream'.dirty \cup dmStream'.batch
               PROVE  Arrives(j)'
    BY Zenon DEF CleanKeysArrive
  <2>1. CASE j # k
    <3>1. Arrives(j)
      BY Zenon, <2>1, <1>2, <1>3 DEF DmIInv, CleanKeysArrive
    <3> QED
      BY Zenon, <2>1, <3>1, <1>2, <1>4 DEF Arrives
  <2>2. CASE j = k
    <3>1. \A n \in dmNet' : n.ts <= dmTimestamp
      BY <1>2, <1>4, DmTypes DEF DmIInv, TimesTellValues
    <3>2. CASE dmTimestamps.of[k] = dmTimestamp
      <4>1. dmMap[k] = dmValue[k]
        BY Zenon, <3>2, <1>5 DEF DmIInv, TimesTellValues
      <4> QED
        BY Zenon, <2>2, <3>1, <3>2, <4>1, <1>2 DEF Arrives
    <3>3. CASE dmTimestamps.of[k] # dmTimestamp
      <4>1. m.ts > dmTimestamps.of[k]
        BY <3>3, <1>4, DmTypes DEF DmIInv, TimesTellValues
      <4>2. m \in dmNet' /\ \A n \in dmNet' : n.key = k => n.ts <= m.ts
        BY Zenon, <3>1, <1>2, <1>4
      <4> QED
        BY Zenon, <2>2, <4>1, <4>2, <1>2, <1>4 DEF Arrives
    <3> QED
      BY Zenon, <3>2, <3>3
  <2> QED
    BY Zenon, <2>1, <2>2
<1>9. FreshConnections'
  BY Zenon, <1>2, <1>3 DEF DmIInv, FreshConnections, Streaming
<1> QED
  BY Zenon, <1>6, <1>7, <1>8, <1>9 DEF DmIInv

(* DoUpdate keeps the inductive invariant.                                 *)
LEMMA DoUpdateKeeps ==
    ASSUME DmIInv, NEW m \in dmNet, DoUpdate(m)
    PROVE  DmIInv'
<1>1. PICK k : k = m.key
  BY Zenon
<1>2. k \in DmKeys /\ m.ts \in Nat /\ m.val \in DmTimes /\ m.ts \in DmTimes
  BY Zenon, <1>1, DmTypes DEF DmMessages
<1>3. dmNet' = dmNet \ {m} /\ UNCHANGED <<dmConn, dmValue, dmTimestamp, dmStream>>
  BY Zenon DEF DoUpdate
<1>4. PICK new : new <=> m.ts > dmTimestamps.of[k]
  BY Zenon
<1>5. /\ dmTimestamps'.exists = TRUE
      /\ dmTimestamps' \in [exists : BOOLEAN, of : [DmKeys -> DmTimes]]
      /\ dmMap' \in [DmKeys -> DmTimes]
      /\ \A j \in DmKeys : j # k \/ ~ new =>
           dmTimestamps'.of[j] = dmTimestamps.of[j] /\ dmMap'[j] = dmMap[j]
      /\ new => dmTimestamps'.of[k] = m.ts /\ dmMap'[k] = m.val
  <2>1. CASE new
    <3>1. /\ dmTimestamps' = [exists |-> TRUE, of |-> [dmTimestamps.of EXCEPT ![k] = m.ts]]
          /\ dmMap' = [dmMap EXCEPT ![k] = m.val]
      BY Zenon, <2>1, <1>1, <1>4 DEF DoUpdate
    <3>2. [dmTimestamps.of EXCEPT ![k] = m.ts] \in [DmKeys -> DmTimes]
      BY Zenon, <1>2 DEF DmIInv, DmTypeOK
    <3> QED
      BY Zenon, <2>1, <3>1, <3>2, <1>2 DEF DmIInv, DmTypeOK
  <2>2. CASE ~ new
    <3>1. dmTimestamps' = [dmTimestamps EXCEPT !.exists = TRUE] /\ dmMap' = dmMap
      BY Zenon, <2>2, <1>1, <1>4 DEF DoUpdate
    <3> QED
      BY Zenon, <2>2, <3>1 DEF DmIInv, DmTypeOK
  <2> QED
    BY Zenon, <2>1, <2>2
<1>6. DmTypeOK'
  BY Zenon, <1>3, <1>5 DEF DmIInv, DmTypeOK
<1>7. TimesTellValues'
  <2>1. \A n \in dmNet' : n \in dmNet /\ n.key \in DmKeys
    BY Zenon, <1>3, DmTypes
  <2>2. ASSUME NEW n \in dmNet', n.ts = dmTimestamps'.of[n.key] PROVE n.val = dmMap'[n.key]
    <3>1. CASE new /\ n.key = k
      <4>1. n.ts = m.ts /\ n.key = m.key
        BY Zenon, <2>2, <3>1, <1>1, <1>5
      <4>2. n.val = m.val
        BY Zenon, <4>1, <2>1 DEF DmIInv, TimesTellValues
      <4> QED
        BY Zenon, <4>2, <3>1, <1>5
    <3>2. CASE ~ (new /\ n.key = k)
      <4>1. dmTimestamps'.of[n.key] = dmTimestamps.of[n.key] /\ dmMap'[n.key] = dmMap[n.key]
        BY Zenon, <3>2, <2>1, <1>5
      <4> QED
        BY Zenon, <4>1, <2>1, <2>2 DEF DmIInv, TimesTellValues
    <3> QED
      BY Zenon, <3>1, <3>2
  <2>3. ASSUME NEW j \in DmKeys
        PROVE  /\ dmTimestamps'.of[j] <= dmTimestamp
               /\ (dmTimestamps'.of[j] = dmTimestamp /\ dmTimestamp # 0) => dmMap'[j] = dmValue[j]
    <3>1. CASE new /\ j = k
      <4>1. dmTimestamps'.of[j] = m.ts /\ dmMap'[j] = m.val
        BY Zenon, <3>1, <1>5
      <4>2. m.ts \in 1 .. dmTimestamp /\ (m.ts = dmTimestamp => m.val = dmValue[k])
        BY Zenon, <1>1 DEF DmIInv, TimesTellValues
      <4> QED
        BY <4>1, <4>2, <3>1, DmTypes
    <3>2. CASE ~ (new /\ j = k)
      <4>1. dmTimestamps'.of[j] = dmTimestamps.of[j] /\ dmMap'[j] = dmMap[j]
        BY Zenon, <3>2, <1>5
      <4> QED
        BY Zenon, <4>1 DEF DmIInv, TimesTellValues
    <3> QED
      BY Zenon, <3>1, <3>2
  <2> QED
    BY <1>3, <2>1, <2>2, <2>3 DEF DmIInv, TimesTellValues
<1>8. CleanKeysArrive'
  <2> SUFFICES ASSUME Streaming, NEW j \in DmKeys, j \notin dmStream.dirty \cup dmStream.batch
               PROVE  Arrives(j)'
    BY Zenon, <1>3 DEF CleanKeysArrive, Streaming
  <2>1. Arrives(j)
    BY Zenon DEF DmIInv, CleanKeysArrive
  <2>2. CASE j # k
    <3>1. dmTimestamps'.of[j] = dmTimestamps.of[j] /\ dmMap'[j] = dmMap[j]
      BY Zenon, <2>2, <1>5
    <3> QED
      BY Zenon, <2>1, <2>2, <3>1, <1>1, <1>3 DEF Arrives
  <2>3. CASE j = k /\ ~ new
    <3>1. dmTimestamps'.of[j] = dmTimestamps.of[j] /\ dmMap'[j] = dmMap[j]
      BY Zenon, <2>3, <1>5
    <3>2. ~ (m.ts > dmTimestamps.of[j])
      BY Zenon, <2>3, <1>4
    <3> QED
      BY Zenon, <2>1, <3>1, <3>2, <1>3 DEF Arrives
  <2>4. CASE j = k /\ new
    <3>1. dmTimestamps'.of[j] = m.ts /\ dmMap'[j] = m.val /\ m.ts > dmTimestamps.of[j] /\ m.key = j
      BY Zenon, <2>4, <1>1, <1>4, <1>5
    <3>2. PICK top \in dmNet :
            /\ top.key = j /\ top.val = dmValue[j] /\ top.ts > dmTimestamps.of[j]
            /\ \A n \in dmNet : n.key = j => n.ts <= top.ts
      <4>1. ~ (m.ts <= dmTimestamps.of[j])
        BY <3>1, <1>2, DmTypes
      <4> QED
        BY Zenon, <2>1, <3>1, <4>1 DEF Arrives
    <3>3. m.ts <= top.ts /\ top.ts \in Nat
      BY Zenon, <3>1, <3>2, DmTypes
    <3>4. CASE m.ts = top.ts
      <4>1. m.val = dmValue[j]
        BY <3>1, <3>2, <3>4 DEF DmIInv, TimesTellValues
      <4>2. \A n \in dmNet' : n.key = j => n.ts <= dmTimestamps'.of[j]
        BY Zenon, <3>1, <3>2, <3>4, <1>3
      <4> QED
        BY Zenon, <3>1, <4>1, <4>2, <1>3 DEF Arrives
    <3>5. CASE m.ts # top.ts
      <4>1. top \in dmNet' /\ top.ts > dmTimestamps'.of[j]
        BY <3>1, <3>3, <3>5, <1>2, <1>3
      <4> QED
        BY Zenon, <4>1, <3>2, <1>3 DEF Arrives
    <3> QED
      BY Zenon, <3>4, <3>5
  <2> QED
    BY Zenon, <2>2, <2>3, <2>4
<1>9. FreshConnections'
  BY Zenon, <1>3, <1>5 DEF DmIInv, FreshConnections
<1> QED
  BY Zenon, <1>6, <1>7, <1>8, <1>9 DEF DmIInv

(* DmConnection keeps the inductive invariant.                             *)
LEMMA DmConnectionKeeps ==
    ASSUME DmIInv,
           CleanUp \/ MapConnectionIsLost \/ MapConnectionGoesAway \/ MapNewConnection
    PROVE  DmIInv'
<1>1. \A k \in DmKeys : NoValues[k] = 0
  BY Zenon DEF NoValues
<1>2. NoValues \in [DmKeys -> DmTimes] /\ 0 \in DmTimes
  BY DmAssumption DEF NoValues, DmTimes
<1>3. CASE CleanUp
  <2>1. /\ dmConn.st = "closing" /\ dmTimestamps' = NoTimestamps /\ dmMap' = NoValues
        /\ UNCHANGED <<dmConn, dmValue, dmTimestamp, dmStream, dmNet>>
    BY Zenon, <1>3 DEF CleanUp
  <2>2. dmTimestamps'.of = NoValues /\ dmTimestamps'.exists = FALSE
    BY Zenon, <2>1 DEF NoTimestamps
  <2>3. DmTypeOK'
    BY Zenon, <2>1, <1>2 DEF DmIInv, DmTypeOK, NoTimestamps
  <2>4. TimesTellValues'
    <3>1. \A n \in dmNet : n.key \in DmKeys /\ n.ts # 0
      BY DmTypes DEF DmIInv, TimesTellValues
    <3>2. \A j \in DmKeys : 0 <= dmTimestamp
      BY DmTypes
    <3> QED
      BY Zenon, <2>1, <2>2, <1>1, <3>1, <3>2 DEF DmIInv, TimesTellValues
  <2>5. CleanKeysArrive' /\ FreshConnections'
    BY Zenon, <2>1, <2>2 DEF DmIInv, CleanKeysArrive, Streaming, FreshConnections
  <2> QED
    BY Zenon, <2>3, <2>4, <2>5 DEF DmIInv
<1>4. CASE MapConnectionIsLost
  <2>1. /\ dmConn' = [dmConn EXCEPT !.st = "closing"] /\ dmNet' \subseteq dmNet
        /\ UNCHANGED <<dmValue, dmTimestamp, dmStream, dmTimestamps, dmMap>>
    BY Zenon, <1>4 DEF MapConnectionIsLost
  <2>2. dmConn'.st = "closing" /\ dmConn'.n = dmConn.n
        /\ dmConn' \in [n : 1 .. DmMaxConns, st : {"up", "closing", "down"}]
    BY Zenon, <2>1 DEF DmIInv, DmTypeOK
  <2>3. DmTypeOK' /\ TimesTellValues'
    BY <2>1, <2>2 DEF DmIInv, DmTypeOK, TimesTellValues
  <2>4. CleanKeysArrive' /\ FreshConnections'
    BY Zenon, <2>1, <2>2 DEF DmIInv, CleanKeysArrive, Streaming, FreshConnections
  <2> QED
    BY Zenon, <2>3, <2>4 DEF DmIInv
<1>5. CASE MapConnectionGoesAway
  <2>1. /\ dmConn' = [dmConn EXCEPT !.st = "down"] /\ dmNet = {} /\ ~ dmTimestamps.exists
        /\ UNCHANGED <<dmValue, dmTimestamp, dmStream, dmNet, dmTimestamps, dmMap>>
    BY Zenon, <1>5 DEF MapConnectionGoesAway
  <2>2. dmConn'.st = "down" /\ dmConn'.n = dmConn.n
        /\ dmConn' \in [n : 1 .. DmMaxConns, st : {"up", "closing", "down"}]
    BY Zenon, <2>1 DEF DmIInv, DmTypeOK
  <2>3. DmTypeOK' /\ TimesTellValues'
    BY Zenon, <2>1, <2>2 DEF DmIInv, DmTypeOK, TimesTellValues
  <2>4. CleanKeysArrive' /\ FreshConnections'
    BY Zenon, <2>1, <2>2 DEF DmIInv, CleanKeysArrive, Streaming, FreshConnections
  <2> QED
    BY Zenon, <2>3, <2>4 DEF DmIInv
<1>6. CASE MapNewConnection
  <2>1. /\ dmConn.st = "down" /\ dmConn.n < DmMaxConns
        /\ dmConn' = [n |-> dmConn.n + 1, st |-> "up"]
        /\ UNCHANGED <<dmValue, dmTimestamp, dmStream, dmNet, dmTimestamps, dmMap>>
    BY Zenon, <1>6 DEF MapNewConnection
  <2>2. dmConn'.st = "up" /\ dmConn'.n = dmConn.n + 1
        /\ dmConn' \in [n : 1 .. DmMaxConns, st : {"up", "closing", "down"}]
    BY <2>1, DmTypes
  <2>3. dmStream.conn <= dmConn'.n /\ dmStream.conn # dmConn'.n
    BY <2>2, DmTypes DEF DmIInv, FreshConnections
  <2>4. DmTypeOK' /\ TimesTellValues'
    BY Zenon, <2>1, <2>2 DEF DmIInv, DmTypeOK, TimesTellValues
  <2>5. CleanKeysArrive' /\ FreshConnections'
    BY Zenon, <2>1, <2>2, <2>3 DEF DmIInv, CleanKeysArrive, Streaming, FreshConnections
  <2> QED
    BY Zenon, <2>4, <2>5 DEF DmIInv
<1> QED
  BY Zenon, <1>3, <1>4, <1>5, <1>6

(* Every step keeps the inductive invariant.                               *)
LEMMA StepDmIInv ==
    ASSUME DmIInv, [DmNext]_dmVars
    PROVE  DmIInv'
<1>1. CASE UNCHANGED dmVars
  BY <1>1 DEF dmVars, DmIInv, DmTypeOK, TimesTellValues, CleanKeysArrive, Streaming, Arrives,
              FreshConnections
<1>2. ASSUME NEW k \in DmKeys, KeyChanges(k, dmTimestamp + 1) \/ KeyChanges(k, 0)
      PROVE  DmIInv'
  BY Zenon, <1>2, KeyChangesKeeps
<1>3. ASSUME NEW k \in DmKeys, SendKey(k) PROVE DmIInv'
  BY Zenon, <1>3, SendKeyKeeps
<1>4. CASE MapOnConnectionChange \/ CopyDirtyKeys
  BY Zenon, <1>4, MapOnConnectionChangeKeeps, CopyDirtyKeysKeeps
<1>5. ASSUME NEW m \in dmNet, DoUpdate(m) PROVE DmIInv'
  BY Zenon, <1>5, DoUpdateKeeps
<1>6. CASE CleanUp \/ MapConnectionIsLost \/ MapConnectionGoesAway \/ MapNewConnection
  BY Zenon, <1>6, DmConnectionKeeps
<1> QED
  BY Zenon, <1>1, <1>2, <1>3, <1>4, <1>5, <1>6 DEF DmNext

(* The inductive invariant implies DmInv.                                  *)
LEMMA DmIInvIsEnough == DmIInv => DmInv
<1> SUFFICES ASSUME DmIInv PROVE DmInv
  BY Zenon
<1>1. KeysMeanConnected
  BY Zenon DEF DmIInv, FreshConnections, KeysMeanConnected
<1>2. ASSUME Streaming, dmStream.dirty = {}, dmStream.batch = {}, dmNet = {}
      PROVE  dmMap = dmValue
  <2>1. \A k \in DmKeys : dmMap[k] = dmValue[k]
    BY Zenon, <1>2 DEF DmIInv, CleanKeysArrive, Arrives
  <2> QED
    BY <2>1 DEF DmIInv, DmTypeOK
<1> QED
  BY Zenon, <1>1, <1>2 DEF DmIInv, DmInv, MapIsUpToDate

(* The keys that a server's directory maps have of another server are its  *)
(* newest ones once nothing is dirty or on its way, and none is left when  *)
(* the connection is gone: no interleaving of do_update(), which may run   *)
(* out of order and after the clean-up, brings the reader an old value that*)
(* stays.                                                                  *)
THEOREM DirectoryMapIsRight == DmSpec => []DmInv
<1>1. DmIInv /\ [DmNext]_dmVars => DmIInv'
  BY Zenon, StepDmIInv
<1> QED
  BY InitDmIInv, <1>1, DmIInvIsEnough, PTL DEF DmSpec

(* While a connection stands, a key of the reader's map only changes for a *)
(* newer timestamp.                                                        *)
THEOREM DirectoryMapKeepsItsKeys == DmSpec => KeysNeverGoBack
<1> DEFINE Step == \A k \in DmKeys :
      (dmConn.st = "up" /\ dmMap'[k] # dmMap[k]) => dmTimestamps'.of[k] > dmTimestamps.of[k]
<1>1. DmIInv /\ [DmNext]_dmVars => [Step]_dmVars
  <2> SUFFICES ASSUME DmIInv, DmNext, NEW k \in DmKeys, dmConn.st = "up", dmMap'[k] # dmMap[k]
               PROVE  dmTimestamps'.of[k] > dmTimestamps.of[k]
    BY Zenon
  <2>1. PICK m \in dmNet : DoUpdate(m)
    BY Zenon DEF DmNext, KeyChanges, SendKey, MapOnConnectionChange, CopyDirtyKeys, CleanUp,
           MapConnectionIsLost, MapConnectionGoesAway, MapNewConnection
  <2>2. m.key \in DmKeys
    BY Zenon, DmTypes
  <2>3. /\ m.ts > dmTimestamps.of[m.key]
        /\ dmTimestamps' = [exists |-> TRUE, of |-> [dmTimestamps.of EXCEPT ![m.key] = m.ts]]
        /\ dmMap' = [dmMap EXCEPT ![m.key] = m.val]
    BY Zenon, <2>1 DEF DoUpdate
  <2>4. k = m.key
    BY Zenon, <2>2, <2>3 DEF DmIInv, DmTypeOK
  <2> QED
    BY Zenon, <2>3, <2>4 DEF DmIInv, DmTypeOK
<1>2. DmIInv /\ [DmNext]_dmVars => DmIInv'
  BY Zenon, StepDmIInv
<1> QED
  BY InitDmIInv, <1>1, <1>2, PTL DEF DmSpec, KeysNeverGoBack
================================================================================
