----------------------------- MODULE BranchSteps ----------------------------
(***************************************************************************)
(* The coming and going of dispatchees and listeners keeps the invariant of*)
(* Branch, and what it says of the write that gets its token next.         *)
(***************************************************************************)
EXTENDS BranchLemmas

-----------------------------------------------------------------------------
(* The steps in which a dispatchee changes.                                *)

(* OnCreate keeps the inductive invariant.                                 *)
LEMMA OnCreateKeeps ==
    ASSUME IInv, NEW s \in Servers, OnCreate(s)
    PROVE  IInv'
<1>1. /\ listener[s].stage = "registering" /\ s # Primary /\ s \notin upgrades
      /\ \A r \in Servers : listener[r].from # s
  BY BranchAssumption DEF OnCreate, IInv, PrimaryInv, DispatcheeInv
<1>2. /\ dispatchee'[s] = "writes" /\ \A r \in Servers \ {s} : dispatchee'[r] = dispatchee[r]
      /\ listener'[s].stage = "registered" /\ listener'[s].begin = newest_complete_timestamp
      /\ listener'[s].from = listener[s].from
      /\ \A r \in Servers \ {s} : listener'[r] = listener[r] /\ ops'[r] = ops[r]
      /\ UNCHANGED <<broadcaster_vars, upgrades, read, store, changes>>
  BY DEF OnCreate, IInv, TypeOK
<1>3. /\ current_timestamp \in Nat /\ newest_complete_timestamp \in Nat
      /\ newest_complete_timestamp \in Versions
      /\ Len(incomplete_writes) \in Nat
      /\ Len(incomplete_writes) = current_timestamp - newest_complete_timestamp
      /\ \A i \in 1 .. Len(incomplete_writes) :
           incomplete_writes[i] = newest_complete_timestamp + i /\ incomplete_writes[i] \in Timestamps
  BY NumberTypes DEF IInv, TypeOK, SanityCheck
<1>4. ops'[s] = [i \in 1 .. Len(incomplete_writes) |-> NewOp(incomplete_writes[i], "write")]
  BY Zenon DEF OnCreate, IInv, TypeOK
<1>5. \A i \in 1 .. Len(incomplete_writes) : ops'[s][i] \in Op
  BY <1>3, <1>4 DEF NewOp, Op, OpStates
<1>6. ops'[s] \in Seq(Op) /\ Len(ops'[s]) = Len(incomplete_writes)
      /\ OpsOf(s)' = 1 .. Len(incomplete_writes)
  BY <1>3, <1>4, <1>5 DEF OpsOf
<1>7. \A i \in OpsOf(s)' : /\ ops'[s][i].ts = newest_complete_timestamp + i
                           /\ ops'[s][i].kind = "write" /\ ops'[s][i].st = "sent"
                           /\ ops'[s][i].ts > newest_complete_timestamp
                           /\ ops'[s][i].ts <= current_timestamp
  BY <1>3, <1>4, <1>6 DEF NewOp
<1>8. \A r \in Servers \ {s} : OpsOf(r)' = OpsOf(r)
  BY Zenon, <1>2 DEF OpsOf
<1>9. TypeOK'
  <2>1. ops' \in [Servers -> Seq(Op)]
    BY Zenon, <1>6, <1>2 DEF OnCreate, IInv, TypeOK
  <2>2. dispatchee' \in [Servers -> {"none", "writes", "readable", "draining"}]
    BY Zenon DEF OnCreate, IInv, TypeOK
  <2>3. listener' \in [Servers -> ListenerRecords]
    <3>1. listener' = [listener EXCEPT ![s] = [listener[s] EXCEPT !.stage = "registered",
                                                                  !.begin = newest_complete_timestamp]]
      BY Zenon DEF OnCreate
    <3>2. [listener[s] EXCEPT !.stage = "registered",
                              !.begin = newest_complete_timestamp] \in ListenerRecords
      BY Zenon, <1>3, RecordTypes DEF IInv, ListenerRecords, Stages
    <3> QED
      BY Zenon, <3>1, <3>2, RecordTypes DEF IInv
  <2>4. latest_acked_write' \in [Servers -> Versions]
    <3>1. 0 \in Versions
      BY BranchAssumption DEF Versions
    <3> QED
      BY Zenon, <3>1 DEF OnCreate, IInv, TypeOK
  <2> QED
    BY Zenon, <2>1, <2>2, <2>3, <2>4, <1>2 DEF IInv, TypeOK, broadcaster_vars, ListenerRecords
<1>10. SanityCheck' /\ ReadInv'
  BY Zenon, <1>2 DEF IInv, SanityCheck, ReadInv, broadcaster_vars
<1>11. AnswersInv'
  <2>1. NoneStarts
    BY SMTT(30), <1>2, <1>7, <1>8 DEF NoneStarts
  <2> QED
    BY Zenon, <2>1, <1>2, AnswersFrame DEF IInv, broadcaster_vars
<1>12. DispatcheeInv' /\ PrimaryInv'
  <2>1. \A r \in Servers : listener'[r].from = listener[r].from
    BY Zenon, <1>2
  <2>2. \A r \in Servers : listener[r].from # None =>
            listener[r].from \in Servers \ {s} /\ listener[listener[r].from].stage = "replying"
    BY Zenon, <1>1, ListenerTypes DEF IInv, DispatcheeInv
  <2> QED
    BY SMTT(30), <1>1, <1>2, <2>1, <2>2, BranchAssumption DEF IInv, DispatcheeInv, PrimaryInv
<1>13. StreamInv'
  <2> SUFFICES ASSUME NEW r \in Servers
               PROVE  /\ \A i \in OpsOf(r)' : ops'[r][i].ts <= current_timestamp
                      /\ Attached(r)' =>
                           /\ listener'[r].begin + Len(ops'[r]) <= current_timestamp
                           /\ (r \in Dispatchees)' => listener'[r].begin + Len(ops'[r]) = current_timestamp
                           /\ \A i \in OpsOf(r)' :
                                /\ ops'[r][i].ts = listener'[r].begin + i
                                /\ listener'[r].stage # "replying" => ops'[r][i].kind = "write"
                                /\ ~Streaming(r)' => ops'[r][i].st \in {"sent", "queued"}
    BY Zenon, <1>2 DEF StreamInv, broadcaster_vars
  <2>1. CASE r = s
    BY <2>1, <1>2, <1>3, <1>6, <1>7
  <2>2. CASE r # s
    BY <2>2, <1>2, <1>8 DEF IInv, StreamInv, Attached, Streaming, Dispatchees
  <2> QED
    BY Zenon, <2>1, <2>2
<1>14. ListenerInv' /\ StoreInv'
  <2>1. \A r \in Servers : Streaming(r)' => r # s /\ Streaming(r)
    BY Zenon, <1>2 DEF Streaming
  <2>2. ListenerInv'
    BY SMTT(30), <2>1, <1>2, <1>8 DEF IInv, ListenerInv, OpInv, broadcaster_vars
  <2>3. StoreInv'
    BY <1>2 DEF IInv, StoreInv, StoreIsPrefix, broadcaster_vars
  <2> QED
    BY Zenon, <2>2, <2>3
<1> QED
  BY Zenon, <1>9, <1>10, <1>11, <1>12, <1>13, <1>14 DEF IInv

(* Upgrade keeps the inductive invariant.                                  *)
LEMMA UpgradeKeeps ==
    ASSUME IInv, NEW s \in Servers, Upgrade(s)
    PROVE  IInv'
<1>1. /\ s \in upgrades /\ dispatchee[s] = "writes"
      /\ dispatchee'[s] = "readable" /\ \A r \in Servers \ {s} : dispatchee'[r] = dispatchee[r]
      /\ dispatchee' \in [Servers -> {"none", "writes", "readable", "draining"}]
      /\ upgrades' = upgrades \ {s}
      /\ UNCHANGED <<broadcaster_vars, latest_acked_write, ops, read, listener, store, changes>>
  BY Zenon DEF Upgrade, IInv, TypeOK
<1>2. SameOps /\ NoneStarts
  BY Zenon, <1>1 DEF SameOps, NoneStarts, OpsOf
<1>3. TypeOK' /\ SanityCheck' /\ ReadInv'
  BY Zenon, <1>1 DEF IInv, TypeOK, SanityCheck, ReadInv, broadcaster_vars
<1>4. DispatcheeInv' /\ PrimaryInv'
  BY SMTT(30), <1>1, BranchAssumption DEF IInv, DispatcheeInv, PrimaryInv
<1>5. StreamInv'
  <2>1. Dispatchees' = Dispatchees
    BY Zenon, <1>1 DEF Dispatchees
  <2> QED
    BY <2>1, <1>1 DEF IInv, StreamInv, Attached, Streaming, OpsOf, broadcaster_vars
<1> QED
  BY Zenon, <1>1, <1>2, <1>3, <1>4, <1>5, ListenerFrame, StoreFrame, AnswersFrame DEF IInv, broadcaster_vars

(* DestroyDispatchee keeps the inductive invariant.                        *)
LEMMA DestroyDispatcheeKeeps ==
    ASSUME IInv, NEW s \in Servers, Deregister(s) \/ Disconnect(s)
    PROVE  IInv'
<1>1. /\ s # Primary /\ s \in Dispatchees
      /\ dispatchee'[s] = "draining" /\ \A r \in Servers \ {s} : dispatchee'[r] = dispatchee[r]
      /\ dispatchee' \in [Servers -> {"none", "writes", "readable", "draining"}]
      /\ upgrades' = upgrades \ {s} /\ read' \in {None, read}
      /\ UNCHANGED <<broadcaster_vars, latest_acked_write, ops, listener, store>>
  BY DEF Deregister, Disconnect, DestroyDispatchee, IInv, TypeOK, PrimaryInv
<1>2. changes' \in 0 .. MaxChanges
  BY SMTT(30), BranchAssumption DEF Deregister, Disconnect, Change, IInv, TypeOK
<1>3. SameOps /\ NoneStarts
  BY Zenon, <1>1 DEF SameOps, NoneStarts, OpsOf
<1>4. TypeOK' /\ SanityCheck' /\ ReadInv'
  BY Zenon, <1>1, <1>2 DEF IInv, TypeOK, SanityCheck, ReadInv, broadcaster_vars
<1>5. DispatcheeInv' /\ PrimaryInv'
  BY SMTT(30), <1>1, BranchAssumption DEF IInv, DispatcheeInv, PrimaryInv
<1>6. StreamInv'
  <2>1. Dispatchees' \subseteq Dispatchees
    BY Zenon, <1>1 DEF Dispatchees
  <2> QED
    BY <2>1, <1>1 DEF IInv, StreamInv, Attached, Streaming, OpsOf, broadcaster_vars
<1> QED
  BY Zenon, <1>1, <1>3, <1>4, <1>5, <1>6, ListenerFrame, StoreFrame, AnswersFrame DEF IInv, broadcaster_vars

(* DispatcheeDrained keeps the inductive invariant.                        *)
LEMMA DispatcheeDrainedKeeps ==
    ASSUME IInv, NEW s \in Servers, DispatcheeDrained(s)
    PROVE  IInv'
<1>1. /\ dispatchee[s] = "draining" /\ s # Primary
      /\ dispatchee'[s] = "none" /\ \A r \in Servers \ {s} : dispatchee'[r] = dispatchee[r]
      /\ dispatchee' \in [Servers -> {"none", "writes", "readable", "draining"}]
      /\ UNCHANGED <<broadcaster_vars, latest_acked_write, upgrades, read, listener, store, changes>>
  BY Zenon DEF DispatcheeDrained, IInv, TypeOK, PrimaryInv
<1>2. \A r \in Servers : ops'[r] = ops[r] \/ (ops'[r] = <<>> /\ listener[r].stage = "off")
  BY Zenon DEF DispatcheeDrained, IInv, TypeOK
<1>3. ops' \in [Servers -> Seq(Op)]
  BY DEF DispatcheeDrained, IInv, TypeOK
<1>4. \A r \in Servers : \A j \in OpsOf(r)' : ops'[r] = ops[r] /\ j \in OpsOf(r)
  BY <1>2 DEF OpsOf
<1>5. TypeOK' /\ SanityCheck' /\ ReadInv'
  BY Zenon, <1>1, <1>3 DEF IInv, TypeOK, SanityCheck, ReadInv, broadcaster_vars
<1>6. DispatcheeInv' /\ PrimaryInv'
  BY SMTT(30), <1>1, BranchAssumption DEF IInv, DispatcheeInv, PrimaryInv
<1>7. StreamInv'
  <2>1. Dispatchees' \subseteq Dispatchees
    BY Zenon, <1>1 DEF Dispatchees
  <2>2. \A r \in Servers : Attached(r)' => Attached(r) /\ ops'[r] = ops[r]
    BY Zenon, <1>1, <1>2 DEF Attached
  <2> QED
    BY SMTT(30), <2>1, <2>2, <1>1, <1>4 DEF IInv, StreamInv, Attached, Streaming, broadcaster_vars
<1>8. ListenerInv'
  <2>1. \A r \in Servers : Streaming(r)' => Streaming(r) /\ ops'[r] = ops[r]
    BY Zenon, <1>1, <1>2 DEF Streaming
  <2> QED
    BY SMTT(30), <2>1, <1>1, <1>4 DEF IInv, ListenerInv, OpInv, broadcaster_vars
<1>9. NoneStarts
  BY Zenon, <1>4 DEF NoneStarts
<1> QED
  BY Zenon, <1>1, <1>5, <1>6, <1>7, <1>8, <1>9, StoreFrame, AnswersFrame DEF IInv, broadcaster_vars


-----------------------------------------------------------------------------
(* The steps of a listener that joins or leaves.                           *)

(* Nobody is backfilled from a server that has no replier.                 *)
LEMMA NobodyBackfillsFrom ==
    ASSUME IInv, NEW s \in Servers, listener[s].stage # "replying"
    PROVE  \A r \in Servers : listener[r].from # s
  BY BranchAssumption DEF IInv, DispatcheeInv

(* StartListener keeps the inductive invariant.                            *)
LEMMA StartListenerKeeps ==
    ASSUME IInv, NEW s \in Servers, StartListener(s)
    PROVE  IInv'
<1>1. /\ s # Primary /\ listener[s].stage = "off" /\ dispatchee[s] = "none"
      /\ listener' = [listener EXCEPT ![s] = [listener[s] EXCEPT !.stage = "registering"]]
      /\ UNCHANGED <<broadcaster_vars, dispatchee, latest_acked_write, ops, upgrades, read, store>>
  BY Zenon DEF StartListener
<1>2. /\ listener'[s].stage = "registering" /\ listener'[s].from = listener[s].from
      /\ listener' \in [Servers -> ListenerRecords]
      /\ \A r \in Servers \ {s} : listener'[r] = listener[r]
  BY <1>1, RecordTypes DEF IInv, ListenerRecords, Stages
<1>3. changes' \in 0 .. MaxChanges
  BY BranchAssumption DEF StartListener, Change, IInv, TypeOK
<1>4. TypeOK' /\ SanityCheck' /\ ReadInv'
  BY Zenon, <1>1, <1>2, <1>3 DEF IInv, TypeOK, SanityCheck, ReadInv, broadcaster_vars, ListenerRecords
<1>5. DispatcheeInv' /\ PrimaryInv'
  <2>1. \A r \in Servers : listener[r].from # None => listener[r].from \in Servers \ {s}
    BY Zenon, <1>1, ListenerTypes, NobodyBackfillsFrom DEF IInv
  <2> QED
    BY <1>1, <1>2, <2>1, BranchAssumption DEF IInv, DispatcheeInv, PrimaryInv
<1>6. \A r \in Servers : Attached(r)' => Attached(r) /\ r # s
  BY Zenon, <1>1, <1>2 DEF Attached
<1>7. \A r \in Servers : Streaming(r)' => Streaming(r) /\ r # s
  BY Zenon, <1>1, <1>2 DEF Streaming
<1>8. StreamInv'
  BY <1>1, <1>2, <1>6 DEF IInv, StreamInv, Streaming, Dispatchees, OpsOf, broadcaster_vars
<1>9. ListenerInv'
  BY <1>1, <1>2, <1>7 DEF IInv, ListenerInv, OpInv, OpsOf, broadcaster_vars
<1>10. StoreInv'
  BY Zenon, <1>1, <1>2 DEF IInv, StoreInv, StoreIsPrefix, broadcaster_vars
<1>11. NoneStarts
  BY Zenon, <1>1 DEF NoneStarts, OpsOf
<1> QED
  BY Zenon, <1>1, <1>4, <1>5, <1>8, <1>9, <1>10, <1>11, AnswersFrame DEF IInv, broadcaster_vars

(* Introduce keeps the inductive invariant.                                *)
LEMMA IntroduceKeeps ==
    ASSUME IInv, NEW s \in Servers, NEW r \in Servers, Introduce(s, r)
    PROVE  IInv'
<1>1. /\ listener[s].stage = "registered" /\ listener[r].stage = "replying" /\ r # s
      /\ listener' = [listener EXCEPT ![s] = [listener[s] EXCEPT !.stage = "introduced", !.from = r]]
      /\ UNCHANGED <<broadcaster_vars, dispatchee, ops, upgrades, read, store, changes>>
  BY Zenon DEF Introduce
<1>2. /\ listener'[s].stage = "introduced" /\ listener'[s].from = r
      /\ listener'[s].begin = listener[s].begin
      /\ listener' \in [Servers -> ListenerRecords]
      /\ \A q \in Servers \ {s} : listener'[q] = listener[q]
  BY Zenon, <1>1, RecordTypes DEF IInv, ListenerRecords, Stages
<1>3. latest_acked_write' \in [Servers -> Versions]
  <2>1. latest_acked_write' = [latest_acked_write EXCEPT ![s] = Larger(@, listener[s].begin)]
    BY Zenon DEF Introduce, BumpLatestAckedWrite
  <2>2. listener[s].begin \in Versions
    BY Zenon, RecordTypes DEF IInv, ListenerRecords
  <2> QED
    BY Zenon, <2>1, <2>2 DEF IInv, TypeOK, Larger
<1>4. TypeOK' /\ SanityCheck' /\ ReadInv'
  BY Zenon, <1>1, <1>2, <1>3 DEF IInv, TypeOK, SanityCheck, ReadInv, broadcaster_vars, ListenerRecords
<1>5. DispatcheeInv' /\ PrimaryInv'
  <2>1. \A q \in Servers : listener[q].from # None => listener[q].from \in Servers \ {s}
    BY Zenon, <1>1, ListenerTypes, NobodyBackfillsFrom DEF IInv
  <2> QED
    BY <1>1, <1>2, <2>1, BranchAssumption DEF IInv, DispatcheeInv, PrimaryInv
<1>6. \A q \in Servers : Attached(q)' => Attached(q)
  BY Zenon, <1>1, <1>2 DEF Attached
<1>7. \A q \in Servers : Streaming(q)' => Streaming(q) /\ q # s
  BY Zenon, <1>1, <1>2 DEF Streaming
<1>8. StreamInv'
  BY <1>1, <1>2, <1>6 DEF IInv, StreamInv, Streaming, Dispatchees, OpsOf, broadcaster_vars
<1>9. ListenerInv'
  BY <1>1, <1>2, <1>7 DEF IInv, ListenerInv, OpInv, OpsOf, broadcaster_vars
<1>10. StoreInv'
  BY Zenon, <1>1, <1>2 DEF IInv, StoreInv, StoreIsPrefix, broadcaster_vars
<1>11. NoneStarts
  BY Zenon, <1>1 DEF NoneStarts, OpsOf
<1> QED
  BY Zenon, <1>1, <1>4, <1>5, <1>8, <1>9, <1>10, <1>11, AnswersFrame DEF IInv, broadcaster_vars

(* StartReplier keeps the inductive invariant.                             *)
LEMMA StartReplierKeeps ==
    ASSUME IInv, NEW s \in Servers, StartReplier(s)
    PROVE  IInv'
<1>1. /\ listener[s].stage = "drained"
      /\ listener' = [listener EXCEPT ![s] = [listener[s] EXCEPT !.stage = "replying"]]
      /\ upgrades' = IF dispatchee[s] = "writes" THEN upgrades \cup {s} ELSE upgrades
      /\ UNCHANGED <<broadcaster_vars, dispatchee, latest_acked_write, ops, read, store, changes>>
  BY Zenon DEF StartReplier
<1>2. /\ listener'[s].stage = "replying" /\ listener'[s].from = listener[s].from
      /\ listener'[s].begin = listener[s].begin /\ listener'[s].current = listener[s].current
      /\ listener'[s].backfill_end = listener[s].backfill_end /\ listener'[s].min = listener[s].min
      /\ listener' \in [Servers -> ListenerRecords]
      /\ \A q \in Servers \ {s} : listener'[q] = listener[q]
  BY <1>1, RecordTypes DEF IInv, ListenerRecords, Stages
<1>3. TypeOK' /\ SanityCheck' /\ ReadInv'
  BY Zenon, <1>1, <1>2 DEF IInv, TypeOK, SanityCheck, ReadInv, broadcaster_vars, ListenerRecords
<1>4. DispatcheeInv' /\ PrimaryInv'
  <2>1. \A q \in Servers : listener[q].from # None => listener[q].from \in Servers \ {s}
    BY Zenon, <1>1, ListenerTypes, NobodyBackfillsFrom DEF IInv
  <2> QED
    BY <1>1, <1>2, <2>1, BranchAssumption DEF IInv, DispatcheeInv, PrimaryInv
<1>5. StreamInv'
  BY <1>1, <1>2 DEF IInv, StreamInv, Attached, Streaming, Dispatchees, OpsOf, broadcaster_vars
<1>6. ListenerInv'
  BY <1>1, <1>2 DEF IInv, ListenerInv, Streaming, OpInv, OpsOf, broadcaster_vars
<1>7. StoreInv'
  BY Zenon, <1>1, <1>2 DEF IInv, StoreInv, StoreIsPrefix, broadcaster_vars
<1>8. NoneStarts
  BY Zenon, <1>1 DEF NoneStarts, OpsOf
<1> QED
  BY Zenon, <1>1, <1>3, <1>4, <1>5, <1>6, <1>7, <1>8, AnswersFrame DEF IInv, broadcaster_vars


(* A replier's store together with the writes that have their write tokens *)
(* is everything up to its current timestamp: what on_backfill() reads.    *)
LEMMA BackfillIsComplete ==
    ASSUME IInv, NEW r \in Servers, Streaming(r)
    PROVE  store[r].data \cup {ops[r][i].ts : i \in {j \in 1 .. Len(ops[r]) : ops[r][j].st = "executing"}}
             = 1 .. listener[r].current
<1> DEFINE tokens == {ops[r][i].ts : i \in {j \in 1 .. Len(ops[r]) : ops[r][j].st = "executing"}}
<1>1. /\ store[r].earliest \in Nat /\ store[r].latest \in Nat /\ listener[r].begin \in Nat
      /\ listener[r].current \in Nat /\ listener[r].backfill_end \in Nat /\ Len(ops[r]) \in Nat
      /\ \A i \in OpsOf(r) : ops[r][i].ts \in Nat /\ ops[r][i].ts \in Timestamps /\ ops[r][i].st \in OpStates
  BY Zenon, OpTypes, ListenerTypes DEF IInv
<1>2. /\ store[r].earliest = store[r].latest
      /\ listener[r].begin <= listener[r].backfill_end
      /\ listener[r].backfill_end <= store[r].earliest
      /\ store[r].earliest <= listener[r].current
      /\ store[r].earliest < listener[r].current =>
             listener[r].current <= listener[r].begin + Len(ops[r])
      /\ \A i \in OpsOf(r) : OpInv(r, ops[r][i])
  BY Zenon DEF IInv, ListenerInv
<1>3. store[r].data = 1 .. store[r].earliest
  BY Zenon, <1>2 DEF IInv, StoreInv, StoreIsPrefix
<1>4. tokens \subseteq 1 .. listener[r].current
  <2> SUFFICES ASSUME NEW i \in OpsOf(r), ops[r][i].st = "executing"
               PROVE  ops[r][i].ts \in 1 .. listener[r].current
    BY Zenon DEF OpsOf
  <2>1. ops[r][i].ts <= listener[r].current
    BY Zenon, <1>2 DEF OpInv
  <2> QED
    BY <2>1, <1>1 DEF Timestamps
<1>5. ASSUME NEW t \in 1 .. listener[r].current, ~(t <= store[r].earliest) PROVE t \in tokens
  <2>1. t \in Nat /\ store[r].earliest < listener[r].current
    BY <1>5, <1>1
  <2>2. PICK i \in Nat : t = listener[r].begin + i
    BY <2>1, <1>1, <1>2, <1>5, t - listener[r].begin \in Nat
  <2>3. i \in OpsOf(r)
    BY SMTT(30), <2>1, <2>2, <1>1, <1>2, <1>5 DEF OpsOf
  <2>4. ops[r][i].ts = t
    BY Zenon, <2>2, <2>3 DEF IInv, StreamInv, Attached, Streaming
  <2>5. OpInv(r, ops[r][i]) /\ ops[r][i].st \in OpStates
    BY Zenon, <2>3, <1>1, <1>2
  <2>6. ~(t <= listener[r].backfill_end) /\ ~(listener[r].current < t)
    BY <1>1, <1>2, <1>5, <2>1
  <2>7. ops[r][i].st = "executing"
    BY Zenon, <2>4, <2>5, <2>6, <1>5 DEF OpInv, OpStates
  <2> QED
    BY Zenon, <2>3, <2>4, <2>7 DEF OpsOf
<1>6. 1 .. store[r].earliest \subseteq 1 .. listener[r].current
  BY <1>1, <1>2
<1>7. ASSUME NEW t \in 1 .. listener[r].current PROVE t \in store[r].data \cup tokens
  <2>1. CASE t <= store[r].earliest
    BY SMTT(30), <2>1, <1>1, <1>3, t \in Nat
  <2> QED
    BY Zenon, <2>1, <1>5
<1> QED
  BY Zenon, <1>3, <1>4, <1>6, <1>7

(* StartBackfill keeps the inductive invariant.                            *)
LEMMA StartBackfillKeeps ==
    ASSUME IInv, Build = "debug", NEW s \in Servers, StartBackfill(s)
    PROVE  IInv'
<1>1. PICK r \in Servers : r = listener[s].from
  BY Zenon, ListenerTypes DEF IInv, StartBackfill, MayBackfill
<1>2. /\ listener[s].stage = "introduced" /\ listener[r].stage = "replying" /\ r # s
  BY Zenon, <1>1, BranchAssumption DEF StartBackfill, MayBackfill, IInv, DispatcheeInv
<1>3. /\ listener[s].begin <= listener[r].current
      /\ store[s].latest <= listener[r].current
      /\ UNCHANGED <<broadcaster_vars, dispatchee, latest_acked_write, ops, upgrades, read, changes>>
  BY Zenon, <1>1 DEF StartBackfill, MayBackfill, Synchronized
<1>4. /\ store[s].earliest \in Nat /\ store[s].latest \in Nat /\ listener[r].current \in Nat
      /\ listener[r].current <= current_timestamp
      /\ current_timestamp \in Nat /\ current_timestamp <= MaxTimestamp /\ MaxTimestamp \in Nat
  BY Zenon, <1>2, ListenerTypes, NumberTypes DEF IInv, ListenerInv, Streaming
<1>5. PICK v \in Versions : v = listener[r].current
  BY Zenon, RecordTypes DEF IInv, ListenerRecords
<1>6. {t \in store[r].data \cup
             {ops[r][i].ts : i \in {j \in 1 .. Len(ops[r]) : ops[r][j].st = "executing"}} :
          t > store[s].earliest} = store[s].earliest + 1 .. v
  <2>1. {t \in 1 .. v : t > store[s].earliest} = store[s].earliest + 1 .. v
    BY <1>4, <1>5
  <2> QED
    BY Zenon, <2>1, <1>2, <1>5, BackfillIsComplete DEF Streaming
<1>7. store[s].earliest + 1 .. v \in SUBSET Timestamps
  BY <1>4, <1>5 DEF Timestamps
<1>8. PICK snapshot \in SUBSET Timestamps : snapshot = store[s].earliest + 1 .. v
  BY Zenon, <1>7
<1>9. /\ listener' = [listener EXCEPT ![s] = [listener[s] EXCEPT !.stage = "backfilling",
                                                                !.snapshot = snapshot]]
      /\ store' = [store EXCEPT ![s] = [store[s] EXCEPT !.latest = v]]
  <2> DEFINE Sent(q) == {t \in store[q].data \cup
                            {ops[q][i].ts : i \in {j \in 1 .. Len(ops[q]) : ops[q][j].st = "executing"}} :
                            t > store[s].earliest}
  <2>1. /\ listener' = [listener EXCEPT ![s].stage = "backfilling", ![s].snapshot = Sent(listener[s].from)]
        /\ store' = [store EXCEPT ![s].latest = listener[listener[s].from].current]
    BY Zenon DEF StartBackfill
  <2>2. Sent(r) = snapshot
    BY Zenon, <1>6, <1>8
  <2> HIDE DEF Sent
  <2>3. Sent(listener[s].from) = snapshot
    BY Zenon, <2>2, <1>1
  <2> QED
    BY Zenon, <2>1, <2>3, <1>1, <1>5
<1>10. /\ listener'[s].stage = "backfilling" /\ listener'[s].snapshot = snapshot
       /\ listener'[s].from = listener[s].from /\ listener'[s].begin = listener[s].begin
       /\ listener' \in [Servers -> ListenerRecords]
       /\ \A q \in Servers \ {s} : listener'[q] = listener[q]
  BY Zenon, <1>9, RecordTypes DEF IInv, ListenerRecords, Stages
<1>11. /\ store'[s].earliest = store[s].earliest /\ store'[s].latest = v
       /\ store'[s].data = store[s].data
       /\ store' \in [Servers -> StoreRecords]
       /\ \A q \in Servers \ {s} : store'[q] = store[q]
  BY Zenon, <1>9, RecordTypes DEF IInv, StoreRecords
<1>12. TypeOK' /\ SanityCheck' /\ ReadInv'
  BY Zenon, <1>3, <1>10, <1>11 DEF IInv, TypeOK, SanityCheck, ReadInv, broadcaster_vars,
     ListenerRecords, StoreRecords
<1>13. DispatcheeInv' /\ PrimaryInv'
  <2>1. \A q \in Servers : listener[q].from # None => listener[q].from \in Servers \ {s}
    BY Zenon, <1>2, ListenerTypes, NobodyBackfillsFrom DEF IInv
  <2> QED
    BY SMTT(30), <1>2, <1>3, <1>10, <2>1, BranchAssumption DEF IInv, DispatcheeInv, PrimaryInv
<1>14. StreamInv'
  BY SMTT(30), <1>2, <1>3, <1>10 DEF IInv, StreamInv, Attached, Streaming, Dispatchees, OpsOf, broadcaster_vars
<1>15. ListenerInv'
  <2>1. \A q \in Servers : Streaming(q)' => Streaming(q) /\ q # s
    BY Zenon, <1>10 DEF Streaming
  <2> QED
    BY SMTT(30), <1>3, <1>10, <1>11, <2>1 DEF IInv, ListenerInv, OpInv, OpsOf, broadcaster_vars
<1>16. StoreInv'
  <2>1. 1 .. store[s].latest \subseteq 1 .. v /\ v <= current_timestamp /\ listener[s].begin <= v
    BY SMTT(30), <1>3, <1>4, <1>5
  <2>2. StoreIsPrefix'
    BY Zenon, <2>1, <1>11 DEF IInv, StoreInv, StoreIsPrefix
  <2> QED
    BY <2>1, <2>2, <1>3, <1>8, <1>10, <1>11 DEF IInv, StoreInv, broadcaster_vars
<1>17. NoneStarts
  BY Zenon, <1>3 DEF NoneStarts, OpsOf
<1> QED
  BY Zenon, <1>3, <1>12, <1>13, <1>14, <1>15, <1>16, <1>17, AnswersFrame DEF IInv, broadcaster_vars


(* FinishBackfill keeps the inductive invariant.                           *)
LEMMA FinishBackfillKeeps ==
    ASSUME IInv, NEW s \in Servers, FinishBackfill(s)
    PROVE  IInv'
<1>1. PICK end \in Versions : end = store[s].latest
  BY Zenon, RecordTypes DEF IInv, StoreRecords
<1>2. PICK stage \in {"drained", "streaming"} : stage = StageWithQueue(Cardinality(Queued(s)))
  BY Zenon DEF StageWithQueue
<1>3. PICK data \in SUBSET Timestamps : data = store[s].data \cup listener[s].snapshot
  BY Zenon, ListenerTypes DEF IInv
<1>4. /\ listener[s].stage = "backfilling"
      /\ store' = [store EXCEPT ![s] = [store[s] EXCEPT !.earliest = end, !.data = data]]
      /\ listener' = [listener EXCEPT ![s] = [listener[s] EXCEPT !.stage = stage, !.from = None,
                        !.snapshot = {}, !.backfill_end = end, !.current = end, !.min = end]]
      /\ UNCHANGED <<broadcaster_vars, dispatchee, latest_acked_write, ops, upgrades, read, changes>>
  BY Zenon, <1>1, <1>2, <1>3 DEF FinishBackfill
<1>5. /\ listener'[s].stage = stage /\ listener'[s].from = None
      /\ listener'[s].begin = listener[s].begin /\ listener'[s].backfill_end = end
      /\ listener'[s].current = end /\ listener'[s].min = end
      /\ listener' \in [Servers -> ListenerRecords]
      /\ \A q \in Servers \ {s} : listener'[q] = listener[q]
  BY Zenon, <1>4, RecordTypes DEF IInv, ListenerRecords, Stages
<1>6. /\ store'[s].earliest = end /\ store'[s].latest = end /\ store'[s].data = data
      /\ store' \in [Servers -> StoreRecords]
      /\ \A q \in Servers \ {s} : store'[q] = store[q]
  BY Zenon, <1>1, <1>4, RecordTypes DEF IInv, StoreRecords
<1>7. TypeOK' /\ SanityCheck' /\ ReadInv'
  BY Zenon, <1>4, <1>5, <1>6 DEF IInv, TypeOK, SanityCheck, ReadInv, broadcaster_vars,
     ListenerRecords, StoreRecords
<1>8. DispatcheeInv' /\ PrimaryInv'
  <2>1. \A q \in Servers : listener[q].from # None => listener[q].from \in Servers \ {s}
    BY Zenon, <1>4, ListenerTypes, NobodyBackfillsFrom DEF IInv
  <2> QED
    BY <1>4, <1>5, <2>1, BranchAssumption DEF IInv, DispatcheeInv, PrimaryInv
<1>9. StreamInv'
  BY <1>4, <1>5 DEF IInv, StreamInv, Attached, Streaming, Dispatchees, OpsOf, broadcaster_vars
<1>10. /\ store[s].earliest \in Nat /\ end \in Nat /\ listener[s].begin \in Nat
       /\ current_timestamp \in Nat
       /\ end <= current_timestamp /\ listener[s].begin <= end
       /\ listener[s].snapshot = store[s].earliest + 1 .. end
  BY Zenon, <1>1, <1>4, ListenerTypes, NumberTypes DEF IInv, StoreInv
<1>11. StoreInv'
  <2>1. 1 .. end \subseteq data
    <3>1. 1 .. store[s].earliest \subseteq store[s].data
      BY Zenon DEF IInv, StoreInv, StoreIsPrefix
    <3>2. ASSUME NEW t \in 1 .. end PROVE t \in 1 .. store[s].earliest \/ t \in store[s].earliest + 1 .. end
      BY <1>10
    <3> QED
      BY Zenon, <3>1, <3>2, <1>3, <1>10
  <2>2. data \subseteq 1 .. end
    <3>1. store[s].data \subseteq 1 .. end
      BY Zenon, <1>1 DEF IInv, StoreInv, StoreIsPrefix
    <3>2. store[s].earliest + 1 .. end \subseteq 1 .. end
      BY <1>10
    <3> QED
      BY Zenon, <3>1, <3>2, <1>3, <1>10
  <2>3. StoreIsPrefix'
    BY Zenon, <2>1, <2>2, <1>6 DEF IInv, StoreInv, StoreIsPrefix
  <2> QED
    BY <2>3, <1>4, <1>5, <1>6, <1>10 DEF IInv, StoreInv, broadcaster_vars
<1>12. ListenerInv'
  <2>1. \A i \in OpsOf(s) : /\ ops[s][i].kind = "write" /\ ops[s][i].st \in {"sent", "queued"}
                            /\ ops[s][i].ts \in Nat
    BY Zenon, <1>4, OpTypes DEF IInv, StreamInv, Attached, Streaming
  <2>2. \A i \in OpsOf(s)' : OpInv(s, ops[s][i])'
    BY <2>1, <1>4, <1>5, <1>6, <1>10 DEF OpInv, OpsOf
  <2>3. ASSUME NEW q \in Servers, q # s, Streaming(q)'
        PROVE  Streaming(q) /\ \A i \in OpsOf(q)' : i \in OpsOf(q) /\ OpInv(q, ops[q][i])'
    BY <2>3, <1>4, <1>5, <1>6 DEF IInv, ListenerInv, Streaming, OpInv, OpsOf
  <2>4. /\ store'[s].earliest = store'[s].latest
        /\ listener'[s].begin <= listener'[s].backfill_end
        /\ listener'[s].backfill_end <= store'[s].earliest
        /\ store'[s].earliest <= listener'[s].current
        /\ listener'[s].current <= current_timestamp'
        /\ listener'[s].min <= store'[s].earliest
        /\ ~(store'[s].earliest < listener'[s].current)
    BY <1>4, <1>5, <1>6, <1>10 DEF broadcaster_vars
  <2> QED
    BY <2>2, <2>3, <2>4, <1>4, <1>5, <1>6 DEF IInv, ListenerInv, broadcaster_vars
<1>13. NoneStarts
  BY Zenon, <1>4 DEF NoneStarts, OpsOf
<1> QED
  BY Zenon, <1>4, <1>7, <1>8, <1>9, <1>11, <1>12, <1>13, AnswersFrame DEF IInv, broadcaster_vars


(* A store that stops, or crashes, is still a prefix of the log between    *)
(* its two versions.                                                       *)
LEMMA StoppedStore ==
    ASSUME IInv, NEW s \in Servers, NEW st \in CutShort(s) \cup Unflushed(s)
    PROVE  /\ st \in StoreRecords /\ st.latest <= current_timestamp
           /\ 1 .. st.earliest \subseteq st.data /\ st.data \subseteq 1 .. st.latest
<1>1. /\ store[s] \in StoreRecords /\ store[s].earliest \in Nat /\ store[s].latest \in Nat
      /\ store[s].data \subseteq Timestamps /\ store[s].earliest \in Versions
      /\ store[s].latest <= current_timestamp /\ current_timestamp \in Nat
      /\ 1 .. store[s].earliest \subseteq store[s].data
      /\ store[s].data \subseteq 1 .. store[s].latest
  BY Zenon, RecordTypes, ListenerTypes, NumberTypes DEF IInv, StoreInv, StoreIsPrefix, StoreRecords
<1>2. CASE st \in CutShort(s)
  <2>1. PICK items : /\ items \in IF listener[s].stage = "backfilling"
                                  THEN SUBSET listener[s].snapshot ELSE {{}}
                     /\ st = [store[s] EXCEPT !.data = store[s].data \cup items]
    BY Zenon, <1>2 DEF CutShort
  <2>2. items \subseteq 1 .. store[s].latest /\ items \subseteq Timestamps
    <3>1. CASE listener[s].stage = "backfilling"
      <4>1. /\ listener[s].snapshot = store[s].earliest + 1 .. store[s].latest
            /\ listener[s].snapshot \subseteq Timestamps
        BY Zenon, <3>1, ListenerTypes DEF IInv, StoreInv
      <4>2. store[s].earliest + 1 .. store[s].latest \subseteq 1 .. store[s].latest
        BY <1>1
      <4> QED
        BY Zenon, <3>1, <4>1, <4>2, <2>1
    <3>2. CASE listener[s].stage # "backfilling"
      BY Zenon, <3>2, <2>1
    <3> QED
      BY Zenon, <3>1, <3>2
  <2>3. /\ st.earliest = store[s].earliest /\ st.latest = store[s].latest
        /\ st.data = store[s].data \cup items
    BY Zenon, <2>1, <1>1 DEF StoreRecords
  <2>4. st \in StoreRecords
    BY Zenon, <2>1, <2>2, <1>1 DEF StoreRecords
  <2> QED
    BY Zenon, <2>2, <2>3, <2>4, <1>1
<1>3. CASE st \in Unflushed(s)
  <2>1. PICK v \in 0 .. store[s].earliest :
          st = [earliest |-> v, latest |-> v, data |-> store[s].data \cap (1 .. v)]
    BY Zenon, <1>3 DEF Unflushed
  <2>2. st.earliest = v /\ st.latest = v /\ st.data = store[s].data \cap (1 .. v)
    BY Zenon, <2>1
  <2>3. v \in Versions /\ 1 .. v \subseteq 1 .. store[s].earliest /\ v \in Nat
    BY <1>1, NumberTypes DEF IInv, Versions
  <2>4. store[s].earliest <= current_timestamp
    <3>1. CASE store[s].earliest = 0
      BY <3>1, <1>1
    <3>2. CASE store[s].earliest # 0
      <4>1. store[s].earliest \in 1 .. store[s].latest
        BY <3>2, <1>1, store[s].earliest \in 1 .. store[s].earliest
      <4> QED
        BY <4>1, <1>1
    <3> QED
      BY Zenon, <3>1, <3>2
  <2>5. st \in StoreRecords
    BY Zenon, <2>1, <2>3, <1>1 DEF StoreRecords
  <2>6. v <= current_timestamp
    BY <2>3, <2>4, <1>1
  <2> QED
    BY Zenon, <2>2, <2>3, <2>5, <2>6, <1>1
<1> QED
  BY Zenon, <1>2, <1>3

(* ListenerGone keeps the inductive invariant.                             *)
LEMMA ListenerGoneKeeps ==
    ASSUME IInv, NEW s \in Servers, s # Primary,
           ListenerGone(s, CutShort(s)) \/ ListenerGone(s, CutShort(s) \cup Unflushed(s)),
           changes' \in 0 .. MaxChanges
    PROVE  IInv'
<1>1. PICK st \in CutShort(s) \cup Unflushed(s) : store' = [store EXCEPT ![s] = st]
  BY Zenon DEF ListenerGone
<1>2. /\ store' \in [Servers -> StoreRecords] /\ store'[s] = st
      /\ \A q \in Servers \ {s} : store'[q] = store[q]
  BY Zenon, <1>1, StoppedStore, RecordTypes DEF IInv
<1>3. /\ listener' = [r \in Servers |-> IF r = s THEN NoListener
                                        ELSE IF listener[r].from = s
                                        THEN [listener[r] EXCEPT !.from = None]
                                        ELSE listener[r]]
      /\ UNCHANGED <<broadcaster_vars, dispatchee, latest_acked_write, upgrades, read>>
  BY Zenon DEF ListenerGone
<1>4. /\ listener'[s] = NoListener /\ NoListener \in ListenerRecords
      /\ listener'[s].stage = "off" /\ listener'[s].from = None
  <2>1. 0 \in Versions
    BY BranchAssumption DEF Versions
  <2> QED
    BY Zenon, <1>3, <2>1 DEF NoListener, ListenerRecords, Stages
<1>5. ASSUME NEW q \in Servers, q # s
      PROVE  /\ listener'[q] \in ListenerRecords
             /\ listener'[q].stage = listener[q].stage /\ listener'[q].begin = listener[q].begin
             /\ listener'[q].snapshot = listener[q].snapshot
             /\ listener'[q].backfill_end = listener[q].backfill_end
             /\ listener'[q].current = listener[q].current /\ listener'[q].min = listener[q].min
             /\ listener'[q].from = None \/ (listener'[q].from = listener[q].from /\ listener[q].from # s)
  <2>1. listener[q] \in ListenerRecords
    BY Zenon, RecordTypes DEF IInv
  <2>2. listener'[q] = IF listener[q].from = s THEN [listener[q] EXCEPT !.from = None] ELSE listener[q]
    BY Zenon, <1>3, <1>5
  <2> QED
    BY Zenon, <2>1, <2>2 DEF ListenerRecords
<1>6. listener' \in [Servers -> ListenerRecords]
  BY Zenon, <1>3, <1>4, <1>5
<1>7. /\ ops' \in [Servers -> Seq(Op)] /\ \A q \in Servers \ {s} : ops'[q] = ops[q]
      /\ OpsOf(s)' \subseteq OpsOf(s)
      /\ \A i \in OpsOf(s)' : ops'[s][i].ts = ops[s][i].ts /\ ops'[s][i].running = ops[s][i].running
  <2>1. /\ ops' = [ops EXCEPT ![s] = IF dispatchee[s] = "none" THEN <<>>
                                     ELSE [i \in 1 .. Len(ops[s]) |-> Orphan(ops[s][i])]]
        /\ ops \in [Servers -> Seq(Op)]
    BY Zenon DEF ListenerGone, IInv, TypeOK
  <2>2. CASE dispatchee[s] = "none"
    BY <2>1, <2>2 DEF OpsOf
  <2>3. CASE dispatchee[s] # "none"
    <3>1. ops'[s] = [i \in 1 .. Len(ops[s]) |-> Orphan(ops[s][i])]
      BY Zenon, <2>1, <2>3
    <3>2. ASSUME NEW i \in 1 .. Len(ops[s])
          PROVE  /\ ops'[s][i] \in Op /\ ops'[s][i].ts = ops[s][i].ts
                 /\ ops'[s][i].running = ops[s][i].running
      <4>1. ops[s][i] \in Op /\ ops'[s][i] = Orphan(ops[s][i])
        BY Zenon, <3>1, OpTypes DEF OpsOf, IInv
      <4>2. PICK new \in OpStates : ops'[s][i] = [ops[s][i] EXCEPT !.st = new]
        BY Zenon, <4>1 DEF Orphan, OpStates
      <4> QED
        BY Zenon, <4>1, <4>2 DEF Op
    <3>3. Len(ops[s]) \in Nat
      BY Zenon, OpTypes DEF IInv
    <3>4. ops'[s] \in Seq(Op) /\ Len(ops'[s]) = Len(ops[s])
      <4>1. PICK n \in Nat : n = Len(ops[s])
        BY Zenon, <3>3
      <4>2. ops'[s] \in [1 .. n -> Op]
        BY Zenon, <3>1, <3>2, <4>1
      <4> QED
        BY ONLY <4>1, <4>2
    <3> QED
      BY Zenon, <2>1, <3>2, <3>4 DEF OpsOf
  <2> QED
    BY Zenon, <2>2, <2>3
<1>8. \A q \in Servers \ {s} : OpsOf(q)' = OpsOf(q)
  BY Zenon, <1>7 DEF OpsOf
<1>9. TypeOK' /\ SanityCheck' /\ ReadInv'
  BY Zenon, <1>2, <1>3, <1>6, <1>7 DEF IInv, TypeOK, SanityCheck, ReadInv, broadcaster_vars,
     ListenerRecords, StoreRecords
<1>10. DispatcheeInv'
  <2>1. ASSUME NEW q \in Servers, listener'[q].from # None
        PROVE  listener'[listener'[q].from].stage = "replying"
    <3>1. q # s /\ listener'[q].from = listener[q].from /\ listener[q].from # s
      BY Zenon, <2>1, <1>4, <1>5
    <3>2. listener[q].from \in Servers /\ listener[listener[q].from].stage = "replying"
      BY Zenon, <2>1, <3>1, ListenerTypes DEF IInv, DispatcheeInv
    <3> QED
      BY Zenon, <3>1, <3>2, <1>5
  <2> QED
    BY <2>1, <1>3, <1>4, <1>5 DEF IInv, DispatcheeInv
<1>11. PrimaryInv'
  BY Zenon, <1>3, <1>5, BranchAssumption DEF IInv, PrimaryInv
<1>12. StreamInv'
  <2>1. \A q \in Servers : Attached(q)' => q # s /\ Attached(q)
    BY Zenon, <1>4, <1>5 DEF Attached
  <2>2. ASSUME NEW q \in Servers PROVE \A i \in OpsOf(q)' : ops'[q][i].ts <= current_timestamp
    BY SMTT(30), <1>7, <1>8 DEF IInv, StreamInv
  <2>3. \A q \in Servers : q # s /\ ~Streaming(q)' => ~Streaming(q)
    BY Zenon, <1>5 DEF Streaming
  <2> QED
    BY <2>1, <2>2, <2>3, <1>3, <1>5, <1>7, <1>8 DEF IInv, StreamInv, Dispatchees, broadcaster_vars
<1>13. ListenerInv'
  <2>1. ASSUME NEW q \in Servers, Streaming(q)'
        PROVE  /\ q # s /\ Streaming(q)
               /\ \A i \in OpsOf(q)' : i \in OpsOf(q) /\ OpInv(q, ops[q][i])'
    <3>1. q # s /\ Streaming(q)
      BY Zenon, <2>1, <1>4, <1>5 DEF Streaming
    <3>2. /\ OpsOf(q)' = OpsOf(q) /\ ops'[q] = ops[q]
          /\ listener'[q].backfill_end = listener[q].backfill_end
          /\ listener'[q].current = listener[q].current /\ store'[q] = store[q]
      BY Zenon, <3>1, <1>2, <1>5, <1>7, <1>8
    <3>3. \A i \in OpsOf(q) : OpInv(q, ops[q][i])
      BY Zenon, <3>1 DEF IInv, ListenerInv
    <3> QED
      BY Zenon, <3>1, <3>2, <3>3 DEF OpInv
  <2> QED
    BY SMTT(30), <2>1, <1>2, <1>3, <1>5, <1>7 DEF IInv, ListenerInv, broadcaster_vars
<1>14. StoreInv'
  <2>1. StoreIsPrefix'
    BY Zenon, <1>2, StoppedStore DEF IInv, StoreInv, StoreIsPrefix
  <2> QED
    BY <2>1, <1>2, <1>3, <1>4, <1>5, StoppedStore DEF IInv, StoreInv, broadcaster_vars
<1>15. NoneStarts
  BY Zenon, <1>7, <1>8 DEF NoneStarts
<1> QED
  BY <1>3, <1>9, <1>10, <1>11, <1>12, <1>13, <1>14, <1>15, AnswersFrame DEF IInv, broadcaster_vars

(* Leaving keeps the inductive invariant.                                  *)
LEMMA LeavingKeeps ==
    ASSUME IInv, NEW s \in Servers, BackfillerLost(s) \/ BroadcasterLost(s) \/ StopListener(s)
    PROVE  IInv'
<1>1. s # Primary
  BY DEF BackfillerLost, BroadcasterLost, StopListener, IInv, PrimaryInv, Dispatchees
<1>2. changes' \in 0 .. MaxChanges
  BY SMTT(30), BranchAssumption DEF BackfillerLost, BroadcasterLost, StopListener, Change, IInv, TypeOK
<1> QED
  BY Zenon, <1>1, <1>2, ListenerGoneKeeps DEF BackfillerLost, BroadcasterLost, StopListener

-----------------------------------------------------------------------------
(* The steps of a listener's writes.                                       *)

(* The operation that is at the store's entrance comes right after the     *)
(* last one that got a write token: every one in between would have to be  *)
(* at the entrance before it.                                              *)
LEMMA EntranceIsNext ==
    ASSUME IInv, NEW s \in Servers, NEW i \in OpsOf(s), Streaming(s),
           ops[s][i].st \in {"sent", "queued"}, listener[s].backfill_end < ops[s][i].ts,
           StoreEntrance(s, i)
    PROVE  ops[s][i].ts = listener[s].current + 1
<1>1. /\ listener[s].begin \in Nat /\ listener[s].backfill_end \in Nat /\ listener[s].current \in Nat
      /\ store[s].earliest \in Nat /\ i \in Nat \ {0} /\ Len(ops[s]) \in Nat /\ ops[s][i].ts \in Nat
  BY Zenon, OpTypes, ListenerTypes DEF IInv
<1>2. \A j \in OpsOf(s) : ops[s][j].ts = listener[s].begin + j
  BY Zenon DEF IInv, StreamInv, Attached, Streaming
<1>a. ops[s][i].ts = listener[s].begin + i
  BY Zenon, <1>2
<1>b. /\ listener[s].begin <= listener[s].backfill_end
      /\ listener[s].backfill_end <= store[s].earliest /\ store[s].earliest <= listener[s].current
  BY Zenon DEF IInv, ListenerInv
<1>3. \A j \in OpsOf(s) : OpInv(s, ops[s][j])
  BY Zenon DEF IInv, ListenerInv
<1>4. listener[s].current < ops[s][i].ts
  <2>1. ops[s][i].ts <= listener[s].backfill_end \/ listener[s].current < ops[s][i].ts
    BY Zenon, <1>3 DEF OpInv
  <2> QED
    BY <2>1, <1>1
<1>5. ASSUME listener[s].current + 1 < ops[s][i].ts PROVE FALSE
  <2>1. PICK j \in Nat : j = i - 1
    BY <1>1
  <2>2. j \in 1 .. i - 1 /\ j \in OpsOf(s) /\ listener[s].current < listener[s].begin + j
    <3>1. listener[s].current < listener[s].begin + j /\ j >= 1 /\ j <= i - 1
      <4>1. PICK b \in Nat, e \in Nat, c \in Nat, t \in Nat :
              /\ b = listener[s].begin /\ e = listener[s].backfill_end
              /\ c = listener[s].current /\ t = ops[s][i].ts
        BY Zenon, <1>1
      <4>2. b <= e /\ e <= c /\ t = b + i /\ c + 1 < t /\ i \in Nat
        BY <4>1, <1>1, <1>a, <1>b, <1>5
      <4>3. c < b + j /\ j >= 1 /\ j <= i - 1
        BY ONLY <4>2, <2>1, b \in Nat, e \in Nat, c \in Nat, t \in Nat, j \in Nat
      <4> QED
        BY Zenon, <4>1, <4>3
    <3> QED
      BY <3>1, <1>1 DEF OpsOf
  <2>3. OpInv(s, ops[s][j]) /\ listener[s].current < ops[s][j].ts /\ ops[s][j].ts \in Nat
    BY <2>2, <1>2, <1>3, OpTypes DEF IInv
  <2>4. ops[s][j].st \in {"skipped", "executing", "applied", "done"}
    BY SMTT(30), <2>2 DEF StoreEntrance
  <2>5. ~(ops[s][j].ts <= listener[s].backfill_end) /\ ~(ops[s][j].ts <= listener[s].current)
        /\ ~(ops[s][j].ts <= store[s].earliest)
    BY SMTT(30), <2>3, <1>1, <1>b
  <2> QED
    BY Zenon, <2>3, <2>4, <2>5 DEF OpInv
<1> QED
  BY SMTT(30), <1>1, <1>4, <1>5

(* The writes are applied one after the other.                             *)
LEMMA OldestTokenIsNext ==
    ASSUME IInv, NEW s \in Servers, NEW i \in OpsOf(s), Streaming(s),
           ops[s][i].st = "executing", \A j \in 1 .. i - 1 : ops[s][j].st # "executing"
    PROVE  ops[s][i].ts = store[s].earliest + 1
<1>1. /\ listener[s].begin \in Nat /\ listener[s].backfill_end \in Nat /\ listener[s].current \in Nat
      /\ store[s].earliest \in Nat /\ i \in Nat \ {0} /\ Len(ops[s]) \in Nat /\ ops[s][i].ts \in Nat
  BY Zenon, OpTypes, ListenerTypes DEF IInv
<1>2. \A j \in OpsOf(s) : ops[s][j].ts = listener[s].begin + j
  BY Zenon DEF IInv, StreamInv, Attached, Streaming
<1>a. ops[s][i].ts = listener[s].begin + i
  BY Zenon, <1>2
<1>b. /\ listener[s].begin <= listener[s].backfill_end
      /\ listener[s].backfill_end <= store[s].earliest /\ store[s].earliest <= listener[s].current
  BY Zenon DEF IInv, ListenerInv
<1>3. \A j \in OpsOf(s) : OpInv(s, ops[s][j])
  BY Zenon DEF IInv, ListenerInv
<1>4. store[s].earliest < ops[s][i].ts /\ ops[s][i].ts <= listener[s].current
  BY Zenon, <1>3 DEF OpInv
<1>5. ASSUME store[s].earliest + 1 < ops[s][i].ts PROVE FALSE
  <2>1. PICK j \in Nat : j = i - 1
    BY <1>1
  <2>2. /\ j \in 1 .. i - 1 /\ j \in OpsOf(s) /\ store[s].earliest < listener[s].begin + j
        /\ listener[s].begin + j <= listener[s].current
    <3>1. /\ store[s].earliest < listener[s].begin + j /\ j >= 1 /\ j <= i - 1
          /\ listener[s].begin + j <= listener[s].current
      <4>1. PICK b \in Nat, e \in Nat, c \in Nat, t \in Nat :
              /\ b = listener[s].begin /\ e = store[s].earliest
              /\ c = listener[s].current /\ t = ops[s][i].ts
        BY Zenon, <1>1
      <4>2. b <= e /\ t <= c /\ t = b + i /\ e + 1 < t /\ i \in Nat
        BY <4>1, <1>1, <1>a, <1>b, <1>4, <1>5
      <4>3. e < b + j /\ j >= 1 /\ j <= i - 1 /\ b + j <= c
        BY ONLY <4>2, <2>1, b \in Nat, e \in Nat, c \in Nat, t \in Nat, j \in Nat
      <4> QED
        BY Zenon, <4>1, <4>3
    <3> QED
      BY <3>1, <1>1 DEF OpsOf
  <2>3. /\ OpInv(s, ops[s][j]) /\ store[s].earliest < ops[s][j].ts
        /\ ops[s][j].ts <= listener[s].current /\ ops[s][j].ts \in Nat /\ ops[s][j].st \in OpStates
    BY Zenon, <2>2, <1>2, <1>3, OpTypes DEF IInv
  <2>4. ops[s][j].st # "executing"
    BY Zenon, <2>2
  <2>5. ~(ops[s][j].ts <= listener[s].backfill_end) /\ ~(listener[s].current < ops[s][j].ts)
        /\ ~(ops[s][j].ts <= store[s].earliest)
    BY SMTT(30), <2>3, <1>1, <1>b
  <2> QED
    BY Zenon, <2>3, <2>4, <2>5 DEF OpInv, OpStates
<1>6. PICK e \in Nat, t \in Nat : e = store[s].earliest /\ t = ops[s][i].ts
  BY Zenon, <1>1
<1>7. e < t /\ ~(e + 1 < t)
  BY Zenon, <1>4, <1>5, <1>6
<1>8. t = e + 1
  BY ONLY <1>7, e \in Nat, t \in Nat
<1> QED
  BY Zenon, <1>6, <1>8


\* A step that moves operation i of s on, and with it at most a listener's stage from
\* streaming to drained
MovesOp(s, i, st) ==
  /\ ops' = [ops EXCEPT ![s][i].st = st]
  /\ Streaming(s) \/ st = "queued"
  /\ \A r \in Servers :
       /\ listener'[r].begin = listener[r].begin /\ listener'[r].from = listener[r].from
       /\ \/ listener'[r].stage = listener[r].stage
          \/ listener[r].stage = "streaming" /\ listener'[r].stage = "drained"
  /\ UNCHANGED <<broadcaster_vars, dispatchee, upgrades, read>>

(* What a step that moves operation i of s on leaves as it was.            *)
LEMMA MoveFrame ==
    ASSUME IInv, NEW s \in Servers, NEW i \in OpsOf(s), NEW st \in OpStates, MovesOp(s, i, st)
    PROVE  /\ SanityCheck' /\ DispatcheeInv' /\ StreamInv' /\ AnswersInv' /\ ReadInv' /\ PrimaryInv'
           /\ OpChanges(s, i) /\ ops'[s][i].st = st
<1> USE DEF MovesOp
<1>1. OpChanges(s, i) /\ ops'[s][i].st = st /\ ops'[s][i].running = ops[s][i].running
  BY Zenon, MoveOn DEF IInv
<1>2. SanityCheck' /\ ReadInv'
  BY Zenon DEF IInv, SanityCheck, ReadInv, broadcaster_vars
<1>3. AnswersInv'
  <2>1. NoneStarts
    BY <1>1 DEF OpChanges, NoneStarts
  <2> QED
    BY Zenon, <2>1, AnswersFrame DEF IInv, broadcaster_vars
<1>4. DispatcheeInv'
  <2>1. \A r \in Servers : listener[r].from # None =>
            listener[r].from \in Servers /\ listener[listener[r].from].stage = "replying"
    BY Zenon, ListenerTypes DEF IInv, DispatcheeInv
  <2> QED
    BY <2>1 DEF IInv, DispatcheeInv
<1>5. PrimaryInv'
  BY Zenon, BranchAssumption DEF IInv, PrimaryInv
<1>6. StreamInv'
  <2> SUFFICES ASSUME NEW r \in Servers
               PROVE  /\ \A j \in OpsOf(r) : ops'[r][j].ts <= current_timestamp
                      /\ Attached(r)' =>
                           /\ listener[r].begin + Len(ops[r]) <= current_timestamp
                           /\ r \in Dispatchees => listener[r].begin + Len(ops[r]) = current_timestamp
                           /\ \A j \in OpsOf(r) :
                                /\ ops'[r][j].ts = listener[r].begin + j
                                /\ listener'[r].stage # "replying" => ops'[r][j].kind = "write"
                                /\ ~Streaming(r)' => ops'[r][j].st \in {"sent", "queued"}
    BY <1>1 DEF StreamInv, OpChanges, Dispatchees, broadcaster_vars
  <2>1. /\ Attached(r)' => Attached(r)
        /\ ~Streaming(r)' => ~Streaming(r)
        /\ listener'[r].stage # "replying" => listener[r].stage # "replying"
    BY Zenon DEF Attached, Streaming
  <2>2. ASSUME NEW j \in OpsOf(r), ~Streaming(r), Attached(r) PROVE ops'[r][j].st \in {"sent", "queued"}
    <3>1. CASE r = s /\ j = i
      BY Zenon, <3>1, <2>2, <1>1
    <3>2. CASE r # s \/ j # i
      BY <3>2, <2>2, <1>1 DEF OpChanges, IInv, StreamInv
    <3> QED
      BY Zenon, <3>1, <3>2
  <2> QED
    BY <2>1, <2>2, <1>1 DEF OpChanges, IInv, StreamInv
<1> QED
  BY Zenon, <1>1, <1>2, <1>3, <1>4, <1>5, <1>6
=============================================================================
