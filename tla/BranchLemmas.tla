---------------------------- MODULE BranchLemmas ----------------------------
(***************************************************************************)
(* The inductive invariant of Branch, what leaves which part of it alone,  *)
(* and that the steps of the broadcaster keep it.                          *)
(***************************************************************************)
EXTENDS Branch, TLAPS

Attached(s) == listener[s].stage \notin {"off", "registering"}

(* What the dispatchee of a server and its listener know of each other:    *)
(* only a listener that replies, or one that is gone, has a readable       *)
(* dispatchee, and who is backfilled from replies.                         *)
DispatcheeInv ==
    \A s \in Servers :
        /\ s \in upgrades => dispatchee[s] = "writes"
        /\ s \in upgrades \/ dispatchee[s] = "readable" => listener[s].stage \in {"replying", "off"}
        /\ listener[s].from # None => listener[listener[s].from].stage = "replying"

(* The operations of a dispatchee are consecutive writes from the point    *)
(* that the stream began at; those of a listener that does not reply yet   *)
(* are writes without a response, and in its queue until it has its        *)
(* backfill.                                                               *)
StreamInv ==
    \A s \in Servers :
        /\ \A i \in OpsOf(s) : ops[s][i].ts <= current_timestamp
        /\ Attached(s) =>
             /\ listener[s].begin + Len(ops[s]) <= current_timestamp
             /\ s \in Dispatchees => listener[s].begin + Len(ops[s]) = current_timestamp
             /\ \A i \in OpsOf(s) :
                  /\ ops[s][i].ts = listener[s].begin + i
                  /\ listener[s].stage # "replying" => ops[s][i].kind = "write"
                  /\ ~Streaming(s) => ops[s][i].st \in {"sent", "queued"}

(* Where the operations of a listener that has its backfill are, and where *)
(* its store is: up to backfill_end they are dropped, up to the version of *)
(* the store they are applied, up to current they have their write tokens, *)
(* and those behind it wait.                                               *)
OpInv(s, o) ==
    /\ o.st \in {"sent", "queued"} => o.ts <= listener[s].backfill_end \/ listener[s].current < o.ts
    /\ o.st = "skipped" => o.ts <= listener[s].backfill_end
    /\ o.st = "executing" => store[s].earliest < o.ts /\ o.ts <= listener[s].current
    /\ o.st \in {"applied", "done"} => listener[s].backfill_end < o.ts /\ o.ts <= store[s].earliest
    /\ o.kind = "writeread" => listener[s].backfill_end < o.ts

ListenerInv ==
    \A s \in Servers : Streaming(s) =>
        /\ store[s].earliest = store[s].latest
        /\ listener[s].begin <= listener[s].backfill_end
        /\ listener[s].backfill_end <= store[s].earliest
        /\ store[s].earliest <= listener[s].current
        /\ listener[s].current <= current_timestamp
        /\ listener[s].min <= store[s].earliest
        /\ store[s].earliest < listener[s].current =>
               listener[s].current <= listener[s].begin + Len(ops[s])
        /\ \A i \in OpsOf(s) : OpInv(s, ops[s][i])

(* No store is ahead of the broadcaster, and a backfill brings exactly     *)
(* what is missing up to a point behind the one that the stream began at.  *)
StoreInv ==
    /\ StoreIsPrefix
    /\ \A s \in Servers :
        /\ store[s].latest <= current_timestamp
        /\ listener[s].stage = "backfilling" =>
             /\ listener[s].begin <= store[s].latest
             /\ listener[s].snapshot = store[s].earliest + 1 .. store[s].latest

(* A write that failed has ended, one that is pending lacks acks, one that *)
(* succeeded is not newer than what reads are made to wait for.            *)
AnswersInv ==
    /\ AnswersMatchAcks
    /\ \A t \in Timestamps :
        /\ callback[t] = "failure" => t <= newest_complete_timestamp
        /\ callback[t] = "pending" => ack_set[t] \notin AckSets
        /\ callback[t] = "success" => t <= most_recent_acked_write_timestamp
        /\ t > current_timestamp => ack_set[t] = {}

ReadInv == read # None => read.must_see \subseteq 1 .. read.token

PrimaryInv == listener[Primary].stage = "replying" /\ dispatchee[Primary] = "readable"

(* The inductive invariant. *)
IInv ==
    /\ TypeOK /\ SanityCheck /\ DispatcheeInv /\ StreamInv /\ ListenerInv /\ StoreInv
    /\ AnswersInv /\ ReadInv /\ PrimaryInv

-----------------------------------------------------------------------------
(* What the types say, in the form in which the proofs use it.             *)

(* The broadcaster's timestamps are numbers up to the bound.               *)
LEMMA NumberTypes ==
    ASSUME TypeOK
    PROVE  /\ MaxTimestamp \in Nat /\ Timestamps \subseteq Nat /\ Versions \subseteq Nat
           /\ current_timestamp \in Nat /\ current_timestamp <= MaxTimestamp
           /\ newest_complete_timestamp \in Nat /\ newest_complete_timestamp <= MaxTimestamp
           /\ most_recent_acked_write_timestamp \in Nat
           /\ Len(incomplete_writes) \in Nat
  BY BranchAssumption DEF TypeOK, Timestamps, Versions

(* The types of a dispatchee's operations.                                 *)
LEMMA OpTypes ==
    ASSUME TypeOK, NEW s \in Servers
    PROVE  /\ ops[s] \in Seq(Op) /\ Len(ops[s]) \in Nat /\ DOMAIN ops[s] = OpsOf(s)
           /\ OpsOf(s) \subseteq Nat \ {0}
           /\ \A i \in OpsOf(s) :
                /\ ops[s][i] \in Op /\ ops[s][i].ts \in Timestamps /\ ops[s][i].ts \in Nat
                /\ ops[s][i].kind \in {"write", "writeread"} /\ ops[s][i].st \in OpStates
<1>1. ops[s] \in Seq(Op)
  BY Zenon DEF TypeOK
<1>2. Len(ops[s]) \in Nat /\ DOMAIN ops[s] = OpsOf(s)
  BY <1>1 DEF OpsOf
<1>3. \A i \in OpsOf(s) : ops[s][i] \in Op
  BY <1>1 DEF OpsOf
<1> QED
  BY <1>1, <1>2, <1>3, NumberTypes DEF Op, OpsOf

(* The types of a listener and its store.                                  *)
LEMMA ListenerTypes ==
    ASSUME TypeOK, NEW s \in Servers
    PROVE  /\ listener[s].stage \in Stages /\ listener[s].from \in Servers \cup {None}
           /\ listener[s].begin \in Nat /\ listener[s].backfill_end \in Nat
           /\ listener[s].current \in Nat /\ listener[s].min \in Nat
           /\ listener[s].snapshot \subseteq Timestamps
           /\ store[s].earliest \in Nat /\ store[s].latest \in Nat
           /\ store[s].data \subseteq Timestamps
           /\ store[s].earliest <= MaxTimestamp /\ store[s].latest <= MaxTimestamp
  BY SMTT(30), NumberTypes DEF TypeOK, Versions

ListenerRecords == [stage : Stages, begin : Versions, from : Servers \cup {None},
                    snapshot : SUBSET Timestamps, backfill_end : Versions,
                    current : Versions, min : Versions]
StoreRecords == [earliest : Versions, latest : Versions, data : SUBSET Timestamps]

(* Listeners and stores are records, so that EXCEPT changes a field.       *)
LEMMA RecordTypes ==
    ASSUME TypeOK
    PROVE  /\ listener \in [Servers -> ListenerRecords]
           /\ store \in [Servers -> StoreRecords]
           /\ \A s \in Servers : listener[s] \in ListenerRecords /\ store[s] \in StoreRecords
  BY Zenon DEF TypeOK, ListenerRecords, StoreRecords

(* One operation of one dispatchee changes, and neither its timestamp nor  *)
(* its kind: everything else about the operations stays.                   *)
OpChanges(s, i) ==
    /\ ops' \in [Servers -> Seq(Op)]
    /\ \A r \in Servers : Len(ops'[r]) = Len(ops[r]) /\ OpsOf(r)' = OpsOf(r)
    /\ \A r \in Servers : \A j \in OpsOf(r) :
         /\ ops'[r][j].ts = ops[r][j].ts /\ ops'[r][j].kind = ops[r][j].kind
         /\ r # s \/ j # i => ops'[r][j] = ops[r][j]

(* An operation of a dispatchee is replaced by one of the same write.      *)
LEMMA SetOp ==
    ASSUME TypeOK, NEW s \in Servers, NEW i \in OpsOf(s), NEW o \in Op,
           o.ts = ops[s][i].ts, o.kind = ops[s][i].kind,
           ops' = [ops EXCEPT ![s] = [ops[s] EXCEPT ![i] = o]]
    PROVE  OpChanges(s, i) /\ ops'[s][i] = o
<1>1. /\ ops'[s] = [ops[s] EXCEPT ![i] = o] /\ \A r \in Servers : r # s => ops'[r] = ops[r]
      /\ DOMAIN ops' = Servers
  BY Zenon DEF TypeOK
<1>2. /\ ops[s] \in Seq(Op) /\ i \in 1 .. Len(ops[s])
  BY Zenon, OpTypes DEF OpsOf
<1>3. /\ [ops[s] EXCEPT ![i] = o] \in Seq(Op)
      /\ Len([ops[s] EXCEPT ![i] = o]) = Len(ops[s])
      /\ \A j \in 1 .. Len(ops[s]) : [ops[s] EXCEPT ![i] = o][j] = IF j = i THEN o ELSE ops[s][j]
  BY <1>2
<1>4. \A r \in Servers : ops[r] \in Seq(Op)
  BY Zenon DEF TypeOK
<1>5. ops' \in [Servers -> Seq(Op)]
  BY Zenon, <1>1, <1>3, <1>4 DEF TypeOK
<1> QED
  BY <1>1, <1>2, <1>3, <1>5 DEF OpChanges, OpsOf

(* The two ways in which an operation changes: its coroutine at the        *)
(* broadcaster ends, or the listener moves it on.                          *)
LEMMA StopRunning ==
    ASSUME TypeOK, NEW s \in Servers, NEW i \in OpsOf(s),
           ops' = [ops EXCEPT ![s][i].running = FALSE]
    PROVE  OpChanges(s, i) /\ ops'[s][i].st = ops[s][i].st /\ ~ops'[s][i].running
<1>2. ops[s][i] \in Op
  BY Zenon, OpTypes
<1>3. PICK o \in Op : o = [ops[s][i] EXCEPT !.running = FALSE]
  BY Zenon, <1>2 DEF Op
<1>4. ops' = [ops EXCEPT ![s] = [ops[s] EXCEPT ![i] = o]]
  BY Zenon, <1>3
<1>5. o \in Op /\ o.ts = ops[s][i].ts /\ o.kind = ops[s][i].kind /\ o.st = ops[s][i].st /\ ~o.running
  BY Zenon, <1>2, <1>3 DEF Op
<1>6. OpChanges(s, i) /\ ops'[s][i] = o
  BY ONLY Zenon, <1>4, <1>5, SetOp, TypeOK, s \in Servers, i \in OpsOf(s)
<1> QED
  BY Zenon, <1>5, <1>6

(* An operation of a dispatchee moves to its next stage.                   *)
LEMMA MoveOn ==
    ASSUME TypeOK, NEW s \in Servers, NEW i \in OpsOf(s), NEW st \in OpStates,
           ops' = [ops EXCEPT ![s][i].st = st]
    PROVE  OpChanges(s, i) /\ ops'[s][i].st = st /\ ops'[s][i].running = ops[s][i].running
<1>2. ops[s][i] \in Op
  BY Zenon, OpTypes
<1>3. PICK o \in Op : o = [ops[s][i] EXCEPT !.st = st]
  BY Zenon, <1>2 DEF Op
<1>4. ops' = [ops EXCEPT ![s] = [ops[s] EXCEPT ![i] = o]]
  BY Zenon, <1>3
<1>5. o \in Op /\ o.ts = ops[s][i].ts /\ o.kind = ops[s][i].kind /\ o.st = st
      /\ o.running = ops[s][i].running
  BY Zenon, <1>2, <1>3 DEF Op
<1>6. OpChanges(s, i) /\ ops'[s][i] = o
  BY ONLY Zenon, <1>4, <1>5, SetOp, TypeOK, s \in Servers, i \in OpsOf(s)
<1> QED
  BY Zenon, <1>5, <1>6

-----------------------------------------------------------------------------
(* Frames: a step that leaves alone what a conjunct is about keeps it.     *)

(* The stages of the listeners, and whom they are backfilled from, stay. *)
SameStages == \A r \in Servers : /\ listener'[r].stage = listener[r].stage
                                 /\ listener'[r].from = listener[r].from

(* What leaves DispatcheeInv alone.                                        *)
LEMMA DispatcheeFrame ==
    ASSUME TypeOK, DispatcheeInv, SameStages, UNCHANGED <<dispatchee, upgrades>>
    PROVE  DispatcheeInv'
<1>1. ASSUME NEW s \in Servers, listener[s].from # None PROVE listener[s].from \in Servers
  BY Zenon, <1>1, ListenerTypes
<1> QED
  BY <1>1 DEF DispatcheeInv, SameStages

(* What leaves PrimaryInv alone.                                           *)
LEMMA PrimaryFrame ==
    ASSUME PrimaryInv, SameStages, UNCHANGED dispatchee
    PROVE  PrimaryInv'
  BY Zenon, BranchAssumption DEF PrimaryInv, SameStages

(* The operations stay where they are, at the broadcaster and the listener. *)
SameOps ==
    /\ \A r \in Servers : Len(ops'[r]) = Len(ops[r]) /\ OpsOf(r)' = OpsOf(r)
    /\ \A r \in Servers : \A j \in OpsOf(r) :
         /\ ops'[r][j].ts = ops[r][j].ts /\ ops'[r][j].kind = ops[r][j].kind
         /\ ops'[r][j].st = ops[r][j].st

(* What leaves StreamInv alone.                                            *)
LEMMA StreamFrame ==
    ASSUME StreamInv, SameOps, UNCHANGED <<current_timestamp, dispatchee, listener>>
    PROVE  StreamInv'
  BY DEF StreamInv, SameOps, Attached, Streaming, Dispatchees

(* What leaves ListenerInv alone.                                          *)
LEMMA ListenerFrame ==
    ASSUME ListenerInv, SameOps, UNCHANGED <<current_timestamp, listener, store>>
    PROVE  ListenerInv'
  BY DEF ListenerInv, SameOps, Streaming, OpInv

(* What leaves StoreInv alone.                                             *)
LEMMA StoreFrame ==
    ASSUME StoreInv, UNCHANGED <<current_timestamp, listener, store>>
    PROVE  StoreInv'
  BY Zenon DEF StoreInv, StoreIsPrefix

(* No operation of a write that failed starts to run, and callbacks and acks stay. *)
NoneStarts ==
    \A r \in Servers : \A j \in OpsOf(r)' :
        ops'[r][j].running =>
            \/ j \in OpsOf(r) /\ ops[r][j].ts = ops'[r][j].ts /\ ops[r][j].running
            \/ ops'[r][j].ts > newest_complete_timestamp

(* What leaves AnswersInv alone.                                           *)
LEMMA AnswersFrame ==
    ASSUME TypeOK, AnswersInv, NoneStarts,
           UNCHANGED <<current_timestamp, newest_complete_timestamp,
                       most_recent_acked_write_timestamp, callback, ack_set>>
    PROVE  AnswersInv'
<1>1. ASSUME NEW t \in Timestamps, callback[t] = "failure", NEW r \in Servers,
             NEW j \in OpsOf(r)', ops'[r][j].ts = t, ops'[r][j].running
      PROVE  FALSE
  <2>1. t <= newest_complete_timestamp /\ t \in Nat /\ newest_complete_timestamp \in Nat
    BY Zenon, <1>1, NumberTypes DEF AnswersInv
  <2>2. j \in OpsOf(r) /\ ops[r][j].ts = t /\ ops[r][j].running
    BY <1>1, <2>1 DEF NoneStarts
  <2> QED
    BY Zenon, <1>1, <2>2 DEF AnswersInv, AnswersMatchAcks
<1>2. AnswersMatchAcks'
  BY Zenon, <1>1 DEF AnswersInv, AnswersMatchAcks
<1> QED
  BY Zenon, <1>2 DEF AnswersInv


(* The frames of a step of the broadcaster alone. *)
LEMMA BroadcasterFrame ==
    ASSUME IInv, SameOps,
           UNCHANGED <<current_timestamp, dispatchee, upgrades, read, listener, store>>
    PROVE  DispatcheeInv' /\ StreamInv' /\ ListenerInv' /\ StoreInv' /\ ReadInv' /\ PrimaryInv'
<1>1. SameStages
  BY Zenon DEF SameStages
<1>2. ReadInv'
  BY Zenon DEF IInv, ReadInv
<1> QED
  BY Zenon, <1>1, <1>2, DispatcheeFrame, StreamFrame, ListenerFrame, StoreFrame, PrimaryFrame DEF IInv

-----------------------------------------------------------------------------
(* The steps of the broadcaster that change no dispatchee.                 *)

(* DropCallback keeps the inductive invariant.                             *)
LEMMA DropCallbackKeeps ==
    ASSUME IInv, NEW t \in Timestamps, DropCallback(t)
    PROVE  IInv'
<1>1. TypeOK' /\ SanityCheck'
  BY Zenon DEF IInv, TypeOK, SanityCheck, DropCallback
<1>2. SameOps
  BY Zenon DEF SameOps, DropCallback, OpsOf
<1>3. /\ callback'[t] = "dropped" /\ \A u \in Timestamps \ {t} : callback'[u] = callback[u]
      /\ UNCHANGED <<ack_set, ops, current_timestamp, newest_complete_timestamp,
                     most_recent_acked_write_timestamp>>
  BY Zenon DEF IInv, TypeOK, DropCallback
<1>4. AnswersInv'
  BY <1>3 DEF IInv, AnswersInv, AnswersMatchAcks, OpsOf
<1> QED
  BY Zenon, <1>1, <1>2, <1>4, BroadcasterFrame DEF IInv, DropCallback

(* StartRead keeps the inductive invariant.                                *)
LEMMA StartReadKeeps ==
    ASSUME IInv, NEW mirrors \in SUBSET Servers, StartRead(mirrors)
    PROVE  IInv'
<1>1. Acknowledged \in SUBSET Timestamps /\ most_recent_acked_write_timestamp \in Versions
  BY Zenon DEF Acknowledged, IInv, TypeOK
<1>2. Acknowledged \subseteq 1 .. most_recent_acked_write_timestamp
  BY NumberTypes DEF Acknowledged, IInv, AnswersInv, Timestamps
<1>3. TypeOK' /\ SanityCheck'
  BY Zenon, <1>1 DEF IInv, TypeOK, SanityCheck, StartRead, broadcaster_vars
<1>4. ReadInv'
  BY Zenon, <1>2 DEF ReadInv, StartRead
<1>5. SameOps /\ SameStages /\ NoneStarts
  BY Zenon DEF SameOps, SameStages, NoneStarts, StartRead, OpsOf
<1> QED
  BY Zenon, <1>3, <1>4, <1>5, DispatcheeFrame, StreamFrame, ListenerFrame, StoreFrame, PrimaryFrame,
     AnswersFrame DEF IInv, StartRead, broadcaster_vars

(* PerformRead keeps the inductive invariant.                              *)
LEMMA PerformReadKeeps ==
    ASSUME IInv, NEW s \in Servers, PerformRead(s)
    PROVE  IInv'
<1>1. read # None /\ read \in [from : SUBSET Servers, token : Versions, must_see : SUBSET Timestamps]
  BY Zenon DEF PerformRead, ReadMayGo, IInv, TypeOK
<1>2. read' # None => /\ read' \in [from : SUBSET Servers, token : Versions, must_see : SUBSET Timestamps]
                      /\ read'.token = read.token /\ read'.must_see = read.must_see
  BY Zenon, <1>1 DEF PerformRead
<1>3. TypeOK' /\ SanityCheck'
  BY Zenon, <1>2 DEF IInv, TypeOK, SanityCheck, PerformRead, broadcaster_vars
<1>4. ReadInv'
  BY Zenon, <1>1, <1>2 DEF ReadInv, IInv
<1>5. SameOps /\ SameStages /\ NoneStarts
  BY Zenon DEF SameOps, SameStages, NoneStarts, PerformRead, OpsOf
<1> QED
  BY Zenon, <1>3, <1>4, <1>5, DispatcheeFrame, StreamFrame, ListenerFrame, StoreFrame, PrimaryFrame,
     AnswersFrame DEF IInv, PerformRead, broadcaster_vars


(* end_write() keeps the incomplete writes those after                     *)
(* newest_complete_timestamp, whatever write it ends.                      *)
LEMMA EndWriteKeepsOrder ==
    ASSUME TypeOK, SanityCheck, NEW t \in Timestamps, t <= current_timestamp, NEW cb,
           EndWrite(t, cb), UNCHANGED current_timestamp
    PROVE  /\ SanityCheck' /\ incomplete_writes' \in Seq(Timestamps)
           /\ newest_complete_timestamp' \in Versions
           /\ newest_complete_timestamp <= newest_complete_timestamp'
           /\ t <= newest_complete_timestamp'
<1>1. /\ current_timestamp \in Nat /\ newest_complete_timestamp \in Nat /\ t \in Nat
      /\ newest_complete_timestamp \in Versions /\ t \in Versions
      /\ incomplete_writes \in Seq(Timestamps)
  BY NumberTypes DEF TypeOK, Timestamps, Versions
<1>2. CASE newest_complete_timestamp < t
  <2>1. PICK n \in Nat : n = newest_complete_timestamp
    BY Zenon, <1>1
  <2>2. PICK c \in Nat : c = current_timestamp
    BY Zenon, <1>1
  <2>3. PICK iw \in Seq(Timestamps) : iw = incomplete_writes
    BY Zenon, <1>1
  <2>4. newest_complete_timestamp' = t /\ incomplete_writes' = SubSeq(iw, t - n + 1, Len(iw))
    BY <1>2, <2>1, <2>3, <1>1 DEF EndWrite, Larger
  <2>5. Len(iw) = c - n /\ \A i \in 1 .. Len(iw) : iw[i] = n + i
    BY Zenon, <2>1, <2>2, <2>3 DEF SanityCheck
  <2>6. t - n + 1 \in 1 .. Len(iw) + 1 /\ Len(iw) \in t - n .. Len(iw) /\ Len(iw) \in Nat
    BY <2>5, <2>1, <2>2, <1>1, <1>2
  <2>7. /\ SubSeq(iw, t - n + 1, Len(iw)) \in Seq(Timestamps)
        /\ Len(SubSeq(iw, t - n + 1, Len(iw))) = Len(iw) - (t - n + 1) + 1
        /\ \A i \in 1 .. Len(iw) - (t - n + 1) + 1 :
             SubSeq(iw, t - n + 1, Len(iw))[i] = iw[t - n + 1 + i - 1]
    <3>1. PICK m \in Nat : m = t - n + 1
      BY <2>6
    <3>2. ASSUME NEW i \in m .. Len(iw) PROVE iw[i] \in Timestamps
      <4>1. i \in 1 .. Len(iw)
        BY <3>1, <2>6
      <4> QED
        BY <4>1, <2>3
    <3>3. /\ SubSeq(iw, m, Len(iw)) \in Seq(Timestamps)
          /\ Len(SubSeq(iw, m, Len(iw))) = IF m <= Len(iw) THEN Len(iw) - m + 1 ELSE 0
          /\ \A i \in 1 .. Len(iw) - m + 1 : SubSeq(iw, m, Len(iw))[i] = iw[m + i - 1]
      BY <3>2, <2>6
    <3> QED
      BY <3>1, <3>3, <2>6, <2>1, <1>1
  <2>8. Len(incomplete_writes') = c - t
    BY <2>4, <2>5, <2>7, <1>1, <2>1, <2>2
  <2>9. ASSUME NEW i \in 1 .. c - t PROVE incomplete_writes'[i] = t + i
    <3>1. i \in 1 .. Len(iw) - (t - n + 1) + 1 /\ t - n + 1 + i - 1 \in 1 .. Len(iw)
          /\ t - n + 1 + i - 1 = t - n + i /\ n + (t - n + i) = t + i
      BY <2>5, <1>1, <1>2, <2>1, <2>2
    <3> QED
      BY SMTT(30), <3>1, <2>4, <2>5, <2>7
  <2>10. current_timestamp' = c /\ newest_complete_timestamp' = t
    BY Zenon, <2>2, <2>4
  <2>11. SanityCheck'
    BY Zenon, <2>8, <2>9, <2>10 DEF SanityCheck
  <2> QED
    BY SMTT(30), <2>11, <2>4, <2>7, <1>1, <1>2
<1>3. CASE ~(newest_complete_timestamp < t)
  <2>1. newest_complete_timestamp' = newest_complete_timestamp /\ UNCHANGED incomplete_writes
    BY <1>1, <1>3 DEF EndWrite, Larger
  <2> QED
    BY <2>1, <1>1, <1>3 DEF SanityCheck
<1> QED
  BY Zenon, <1>2, <1>3


CallbackStates == {"unused", "pending", "success", "failure", "dropped"}

(* What releasing the reference of operation i of server s does; cb is the *)
(* state of the callbacks at the call.                                     *)
LEMMA ReleaseRefKeeps ==
    ASSUME TypeOK, SanityCheck, StreamInv, NEW s \in Servers, NEW i \in OpsOf(s),
           NEW cb \in [Timestamps -> CallbackStates],
           ReleaseRef(s, i, cb), UNCHANGED current_timestamp
    PROVE  /\ OpChanges(s, i) /\ SameOps /\ NoneStarts
           /\ SanityCheck' /\ incomplete_writes' \in Seq(Timestamps)
           /\ newest_complete_timestamp' \in Versions
           /\ newest_complete_timestamp <= newest_complete_timestamp'
           /\ callback' \in [Timestamps -> CallbackStates]
           /\ \A u \in Timestamps :
                \/ callback'[u] = cb[u]
                \/ /\ cb[u] = "pending" /\ callback'[u] = "failure"
                   /\ u <= newest_complete_timestamp'
                   /\ \A r \in Servers : \A j \in OpsOf(r) : ops[r][j].ts = u => ~ops'[r][j].running
<1>1. PICK t \in Timestamps : t = ops[s][i].ts
  BY Zenon, OpTypes
<1>2. t <= current_timestamp
  BY Zenon, <1>1 DEF StreamInv
<1>3. OpChanges(s, i) /\ ops'[s][i].st = ops[s][i].st /\ ~ops'[s][i].running
  BY Zenon, StopRunning DEF ReleaseRef
<1>4. SameOps /\ NoneStarts
  BY SMTT(30), <1>3 DEF OpChanges, SameOps, NoneStarts
<1> DEFINE Others == \E r \in Servers : \E j \in 1 .. Len(ops[r]) :
                        <<r, j>> # <<s, i>> /\ ops[r][j].ts = t /\ ops[r][j].running
<1>5. CASE Others
  <2>1. callback' = cb /\ UNCHANGED <<newest_complete_timestamp, incomplete_writes>>
    BY Zenon, <1>1, <1>5 DEF ReleaseRef
  <2>2. newest_complete_timestamp \in Nat
    BY Zenon, NumberTypes
  <2> QED
    BY <1>3, <1>4, <2>1, <2>2 DEF TypeOK, SanityCheck
<1>6. CASE ~Others
  <2>1. EndWrite(t, cb)
    BY Zenon, <1>1, <1>6 DEF ReleaseRef
  <2>2. /\ SanityCheck' /\ incomplete_writes' \in Seq(Timestamps)
        /\ newest_complete_timestamp' \in Versions
        /\ newest_complete_timestamp <= newest_complete_timestamp'
        /\ t <= newest_complete_timestamp'
    BY Zenon, <2>1, <1>2, EndWriteKeepsOrder
  <2>3. callback' = IF cb[t] = "pending" THEN [cb EXCEPT ![t] = "failure"] ELSE cb
    BY Zenon, <2>1 DEF EndWrite
  <2>4. ASSUME NEW r \in Servers, NEW j \in OpsOf(r), ops[r][j].ts = t PROVE ~ops'[r][j].running
    <3>1. CASE r = s /\ j = i
      BY Zenon, <3>1, <1>3
    <3>2. CASE r # s \/ j # i
      BY Zenon, <3>2, <2>4, <1>6, <1>3 DEF OpChanges, OpsOf
    <3> QED
      BY Zenon, <3>1, <3>2
  <2>5. callback' \in [Timestamps -> CallbackStates]
    BY Zenon, <2>3 DEF CallbackStates
  <2> QED
    BY Zenon, <1>3, <1>4, <2>2, <2>3, <2>4, <2>5
<1> QED
  BY Zenon, <1>5, <1>6


(* When the last reference to a write goes, its answer is right.           *)
LEMMA ReleaseRefAnswers ==
    ASSUME TypeOK, SanityCheck, StreamInv, NEW s \in Servers, NEW i \in OpsOf(s),
           NEW cb \in [Timestamps -> CallbackStates],
           ReleaseRef(s, i, cb), UNCHANGED current_timestamp,
           \A u \in Timestamps :
             /\ cb[u] = "success" => ack_set'[u] \in AckSets /\ u <= most_recent_acked_write_timestamp'
             /\ cb[u] = "failure" =>
                  /\ ack_set'[u] \notin AckSets /\ u <= newest_complete_timestamp
                  /\ \A r \in Servers : \A j \in OpsOf(r) : ops[r][j].ts = u => ~ops[r][j].running
             /\ cb[u] = "pending" => ack_set'[u] \notin AckSets
             /\ u > current_timestamp => ack_set'[u] = {}
    PROVE  AnswersInv'
<1>1. /\ OpChanges(s, i) /\ NoneStarts
      /\ newest_complete_timestamp' \in Versions
      /\ newest_complete_timestamp <= newest_complete_timestamp'
      /\ \A u \in Timestamps :
           \/ callback'[u] = cb[u]
           \/ /\ cb[u] = "pending" /\ callback'[u] = "failure"
              /\ u <= newest_complete_timestamp'
              /\ \A r \in Servers : \A j \in OpsOf(r) : ops[r][j].ts = u => ~ops'[r][j].running
  BY ReleaseRefKeeps
<1>2. ASSUME NEW u \in Timestamps, callback'[u] = "failure"
      PROVE  /\ ack_set'[u] \notin AckSets /\ u <= newest_complete_timestamp'
             /\ \A r \in Servers : \A j \in OpsOf(r)' : ops'[r][j].ts = u => ~ops'[r][j].running
  <2>1. CASE cb[u] = "pending" /\ u <= newest_complete_timestamp'
             /\ \A r \in Servers : \A j \in OpsOf(r) : ops[r][j].ts = u => ~ops'[r][j].running
    BY <2>1, <1>1 DEF OpChanges
  <2>2. CASE callback'[u] = cb[u]
    <3>1. u \in Nat /\ newest_complete_timestamp \in Nat /\ newest_complete_timestamp' \in Nat
      BY Zenon, <1>1, NumberTypes
    <3>2. u <= newest_complete_timestamp'
      BY <1>1, <1>2, <2>2, <3>1
    <3>3. ASSUME NEW r \in Servers, NEW j \in OpsOf(r)', ops'[r][j].ts = u, ops'[r][j].running
          PROVE  FALSE
      BY <3>1, <3>3, <1>1, <1>2, <2>2 DEF NoneStarts
    <3> QED
      BY Zenon, <3>2, <3>3, <1>2, <2>2
  <2> QED
    BY Zenon, <2>1, <2>2, <1>1, <1>2
<1>3. ASSUME NEW u \in Timestamps
      PROVE  /\ callback'[u] = "success" => /\ ack_set'[u] \in AckSets
                                            /\ u <= most_recent_acked_write_timestamp'
             /\ callback'[u] = "pending" => ack_set'[u] \notin AckSets
  BY Zenon, <1>1
<1>4. AnswersMatchAcks'
  BY Zenon, <1>2, <1>3 DEF AnswersMatchAcks
<1> QED
  BY Zenon, <1>2, <1>3, <1>4 DEF AnswersInv

(* BackgroundWrite keeps the inductive invariant.                          *)
LEMMA BackgroundWriteKeeps ==
    ASSUME IInv, NEW s \in Servers, NEW i \in OpsOf(s),
           BackgroundWrite(s, i) \/ BackgroundInterrupted(s, i)
    PROVE  IInv'
<1>1. PICK cb \in [Timestamps -> CallbackStates] : cb = callback
  BY Zenon DEF IInv, TypeOK, CallbackStates
<1>2. /\ ReleaseRef(s, i, cb)
      /\ UNCHANGED <<current_timestamp, most_recent_acked_write_timestamp, ack_set, dispatchee,
                     upgrades, read, listener, store, changes>>
  BY Zenon, <1>1 DEF BackgroundWrite, BackgroundInterrupted
<1>3. latest_acked_write' \in [Servers -> Versions]
  <2>1. ops[s][i].ts \in Nat /\ ops[s][i].ts \in Versions
    BY OpTypes DEF IInv, Timestamps, Versions
  <2>2. \/ UNCHANGED latest_acked_write
        \/ latest_acked_write' = [latest_acked_write EXCEPT ![s] = Larger(@, ops[s][i].ts)]
    BY Zenon DEF BackgroundWrite, BackgroundInterrupted, BumpLatestAckedWrite
  <2> QED
    BY Zenon, <2>1, <2>2 DEF Larger, IInv, TypeOK
<1>4. AnswersInv'
  BY ONLY Zenon, <1>1, <1>2, ReleaseRefAnswers, IInv, s \in Servers, i \in OpsOf(s)
     DEF IInv, AnswersInv, AnswersMatchAcks
<1>5. /\ OpChanges(s, i) /\ SameOps
      /\ SanityCheck' /\ incomplete_writes' \in Seq(Timestamps)
      /\ newest_complete_timestamp' \in Versions /\ callback' \in [Timestamps -> CallbackStates]
  BY Zenon, <1>1, <1>2, ReleaseRefKeeps DEF IInv
<1>6. TypeOK'
  BY Zenon, <1>2, <1>3, <1>5 DEF IInv, TypeOK, OpChanges, CallbackStates
<1> QED
  BY Zenon, <1>2, <1>4, <1>5, <1>6, BroadcasterFrame DEF IInv

(* BackgroundWriteread keeps the inductive invariant.                      *)
LEMMA BackgroundWritereadKeeps ==
    ASSUME IInv, NEW s \in Servers, NEW i \in OpsOf(s), BackgroundWriteread(s, i)
    PROVE  IInv'
<1>1. PICK t \in Timestamps : t = ops[s][i].ts
  BY Zenon, OpTypes DEF IInv
<1> DEFINE acks == ack_set[t] \cup {s}
<1> DEFINE called == acks \in AckSets /\ callback[t] = "pending"
<1>2. PICK cb \in [Timestamps -> CallbackStates] :
        cb = IF called THEN [callback EXCEPT ![t] = "success"] ELSE callback
  BY Zenon DEF IInv, TypeOK, CallbackStates
<1>3. /\ ReleaseRef(s, i, cb)
      /\ ack_set' = [ack_set EXCEPT ![t] = acks]
      /\ most_recent_acked_write_timestamp' = Larger(most_recent_acked_write_timestamp, t)
      /\ UNCHANGED <<current_timestamp, dispatchee, upgrades, read, listener, store, changes>>
      /\ ops[s][i].running
  BY Zenon, <1>1, <1>2 DEF BackgroundWriteread
<1>4. /\ latest_acked_write' \in [Servers -> Versions]
      /\ most_recent_acked_write_timestamp' \in Versions
      /\ t <= most_recent_acked_write_timestamp'
      /\ most_recent_acked_write_timestamp <= most_recent_acked_write_timestamp'
      /\ t <= current_timestamp /\ t \in Nat /\ current_timestamp \in Nat
      /\ most_recent_acked_write_timestamp \in Nat /\ most_recent_acked_write_timestamp' \in Nat
  <2>1. t \in Nat /\ t \in Versions /\ most_recent_acked_write_timestamp \in Nat /\ current_timestamp \in Nat
    BY SMTT(30), NumberTypes DEF IInv, Timestamps, Versions
  <2>2. latest_acked_write' = [latest_acked_write EXCEPT ![s] = Larger(@, t)]
    BY Zenon, <1>1 DEF BackgroundWriteread, BumpLatestAckedWrite
  <2>3. latest_acked_write' \in [Servers -> Versions]
    BY Zenon, <2>1, <2>2 DEF Larger, IInv, TypeOK
  <2>4. t <= current_timestamp
    BY Zenon, <1>1 DEF IInv, StreamInv
  <2> QED
    BY <1>3, <2>1, <2>3, <2>4 DEF IInv, TypeOK, Larger
<1>5. /\ ack_set' \in [Timestamps -> SUBSET Servers] /\ ack_set'[t] = acks
      /\ \A u \in Timestamps \ {t} : ack_set'[u] = ack_set[u] /\ cb[u] = callback[u]
      /\ cb[t] = IF called THEN "success" ELSE callback[t]
  BY Zenon, <1>2, <1>3 DEF IInv, TypeOK
<1>6. ASSUME NEW u \in Timestamps
      PROVE  /\ cb[u] = "success" => ack_set'[u] \in AckSets /\ u <= most_recent_acked_write_timestamp'
             /\ cb[u] = "failure" =>
                  /\ ack_set'[u] \notin AckSets /\ u <= newest_complete_timestamp
                  /\ \A r \in Servers : \A j \in OpsOf(r) : ops[r][j].ts = u => ~ops[r][j].running
             /\ cb[u] = "pending" => ack_set'[u] \notin AckSets
             /\ u > current_timestamp => ack_set'[u] = {}
  <2>1. CASE u = t
    <3>1. callback[t] # "failure"
      BY Zenon, <1>1, <1>3 DEF IInv, AnswersInv, AnswersMatchAcks
    <3>2. callback[t] = "success" => acks \in AckSets
      BY Zenon, AckSetsAssumption DEF IInv, AnswersInv, AnswersMatchAcks
    <3> QED
      BY SMTT(30), <2>1, <3>1, <3>2, <1>4, <1>5
  <2>2. CASE u # t
    <3>1. u \in Nat
      BY Zenon, NumberTypes DEF IInv
    <3> QED
      BY <2>2, <3>1, <1>4, <1>5 DEF IInv, AnswersInv, AnswersMatchAcks
  <2> QED
    BY Zenon, <2>1, <2>2
<1>7. AnswersInv'
  BY ONLY Zenon, <1>3, <1>6, ReleaseRefAnswers, IInv, s \in Servers, i \in OpsOf(s),
     cb \in [Timestamps -> CallbackStates] DEF IInv
<1>8. /\ OpChanges(s, i) /\ SameOps
      /\ SanityCheck' /\ incomplete_writes' \in Seq(Timestamps)
      /\ newest_complete_timestamp' \in Versions /\ callback' \in [Timestamps -> CallbackStates]
  BY Zenon, <1>3, ReleaseRefKeeps DEF IInv
<1>9. TypeOK'
  BY Zenon, <1>3, <1>4, <1>5, <1>8 DEF IInv, TypeOK, OpChanges, CallbackStates
<1> QED
  BY Zenon, <1>3, <1>7, <1>8, <1>9, BroadcasterFrame DEF IInv


(* SpawnWrite keeps the inductive invariant.                               *)
LEMMA SpawnWriteKeeps ==
    ASSUME IInv, SpawnWrite
    PROVE  IInv'
<1>1. PICK t \in Timestamps : t = current_timestamp + 1
  BY Zenon DEF SpawnWrite
<1>2. /\ current_timestamp' = t
      /\ incomplete_writes' = Append(incomplete_writes, t)
      /\ callback' = [callback EXCEPT ![t] = "pending"]
      /\ UNCHANGED <<newest_complete_timestamp, most_recent_acked_write_timestamp, ack_set,
                     dispatchee, latest_acked_write, upgrades, read, listener, store, changes>>
  BY Zenon, <1>1 DEF SpawnWrite
<1>3. /\ t \in Nat /\ t \in Versions /\ current_timestamp \in Nat /\ newest_complete_timestamp \in Nat
      /\ Len(incomplete_writes) \in Nat /\ newest_complete_timestamp <= current_timestamp
  <2>1. t \in Nat /\ t \in Versions /\ current_timestamp \in Nat /\ newest_complete_timestamp \in Nat
        /\ Len(incomplete_writes) \in Nat
    BY NumberTypes DEF IInv, Timestamps, Versions
  <2> QED
    BY <2>1 DEF IInv, SanityCheck
<1>4. ASSUME NEW r \in Servers
      PROVE  /\ ops'[r] \in Seq(Op)
             /\ r \in Dispatchees =>
                  /\ Len(ops'[r]) = Len(ops[r]) + 1 /\ OpsOf(r)' = OpsOf(r) \cup {Len(ops[r]) + 1}
                  /\ \A j \in OpsOf(r) : ops'[r][j] = ops[r][j]
                  /\ ops'[r][Len(ops[r]) + 1].ts = t /\ ops'[r][Len(ops[r]) + 1].st = "sent"
                  /\ ops'[r][Len(ops[r]) + 1].kind \in {"write", "writeread"}
                  /\ ops'[r][Len(ops[r]) + 1].kind = "writeread" => r \in Readable
             /\ r \notin Dispatchees => ops'[r] = ops[r] /\ OpsOf(r)' = OpsOf(r)
  <2>1. PICK kind \in {"write", "writeread"} : kind = IF r \in Readable THEN "writeread" ELSE "write"
    BY Zenon
  <2>a. NewOp(t, kind) \in Op
    BY Zenon DEF NewOp, Op, OpStates
  <2>b. PICK o \in Op : o = NewOp(t, kind)
    BY Zenon, <2>a
  <2>c. o.ts = t /\ o.st = "sent" /\ o.kind = kind
    BY Zenon, <2>b DEF NewOp
  <2>2. PICK q \in Seq(Op) : q = ops[r]
    BY Zenon, OpTypes DEF IInv
  <2>3. /\ Append(q, o) \in Seq(Op) /\ Len(Append(q, o)) = Len(q) + 1
        /\ \A j \in 1 .. Len(q) : Append(q, o)[j] = q[j]
        /\ Append(q, o)[Len(q) + 1] = o /\ Len(q) \in Nat
    OBVIOUS
  <2>4. ops'[r] = IF r \in Dispatchees THEN Append(q, o) ELSE q
    BY Zenon, <2>1, <2>2, <2>b, <1>1 DEF SpawnWrite
  <2>5. 1 .. Len(q) + 1 = (1 .. Len(q)) \cup {Len(q) + 1}
    BY <2>3
  <2> QED
    BY Zenon, <2>1, <2>c, <2>2, <2>3, <2>4, <2>5 DEF OpsOf
<1>5. SanityCheck' /\ incomplete_writes' \in Seq(Timestamps)
  <2>1. incomplete_writes \in Seq(Timestamps)
    BY Zenon DEF IInv, TypeOK
  <2>2. /\ incomplete_writes' \in Seq(Timestamps)
        /\ Len(incomplete_writes') = Len(incomplete_writes) + 1
        /\ \A i \in 1 .. Len(incomplete_writes) : incomplete_writes'[i] = incomplete_writes[i]
        /\ incomplete_writes'[Len(incomplete_writes) + 1] = t
    BY <2>1, <1>2
  <2>3. Len(incomplete_writes) = current_timestamp - newest_complete_timestamp
    BY Zenon DEF IInv, SanityCheck
  <2>4. ASSUME NEW i \in 1 .. Len(incomplete_writes')
        PROVE  incomplete_writes'[i] = newest_complete_timestamp + i
    <3>1. CASE i \in 1 .. Len(incomplete_writes)
      BY Zenon, <3>1, <2>2 DEF IInv, SanityCheck
    <3>2. CASE i = Len(incomplete_writes) + 1
      BY <3>2, <2>2, <2>3, <1>1, <1>3
    <3> QED
      BY <3>1, <3>2, <2>2, <1>3
  <2>5. Len(incomplete_writes') = current_timestamp' - newest_complete_timestamp'
    BY <2>2, <2>3, <1>1, <1>2, <1>3
  <2> QED
    BY Zenon, <2>2, <2>4, <2>5, <1>2 DEF SanityCheck
<1>6. TypeOK'
  <2>1. ops' \in [Servers -> Seq(Op)]
    BY SMTT(30), <1>4 DEF SpawnWrite
  <2> QED
    BY SMTT(30), <2>1, <1>2, <1>3, <1>5 DEF IInv, TypeOK
<1>7. AnswersInv'
  <2>1. /\ callback'[t] = "pending" /\ \A u \in Timestamps \ {t} : callback'[u] = callback[u]
        /\ ack_set[t] \notin AckSets /\ UNCHANGED ack_set
    BY SMTT(30), <1>1, <1>2, <1>3, AckSetsAssumption DEF IInv, TypeOK, AnswersInv
  <2>2. ASSUME NEW u \in Timestamps, callback'[u] = "failure", NEW r \in Servers,
               NEW j \in OpsOf(r)', ops'[r][j].ts = u, ops'[r][j].running
        PROVE  FALSE
    <3>1. callback[u] = "failure" /\ u <= newest_complete_timestamp /\ u \in Nat
      BY Zenon, <2>1, <2>2, NumberTypes DEF IInv, AnswersInv
    <3>2. j \in OpsOf(r) /\ ops'[r][j] = ops[r][j]
      BY SMTT(30), <3>1, <2>2, <1>1, <1>3, <1>4
    <3> QED
      BY Zenon, <3>1, <3>2, <2>2 DEF IInv, AnswersInv, AnswersMatchAcks
  <2>3. AnswersMatchAcks'
    BY Zenon, <2>1, <2>2 DEF IInv, AnswersInv, AnswersMatchAcks
  <2>4. \A u \in Timestamps : u > current_timestamp' => u > current_timestamp
    BY SMTT(30), <1>1, <1>2, <1>3, NumberTypes DEF IInv
  <2> QED
    BY Zenon, <2>1, <2>3, <2>4, <1>2 DEF IInv, AnswersInv
<1>8. StreamInv'
  <2> SUFFICES ASSUME NEW r \in Servers
               PROVE  /\ \A j \in OpsOf(r)' : ops'[r][j].ts <= t
                      /\ Attached(r) =>
                           /\ listener[r].begin + Len(ops'[r]) <= t
                           /\ r \in Dispatchees => listener[r].begin + Len(ops'[r]) = t
                           /\ \A j \in OpsOf(r)' :
                                /\ ops'[r][j].ts = listener[r].begin + j
                                /\ listener[r].stage # "replying" => ops'[r][j].kind = "write"
                                /\ ~Streaming(r) => ops'[r][j].st \in {"sent", "queued"}
    BY Zenon, <1>2 DEF StreamInv, Attached, Streaming, Dispatchees
  <2>1. /\ Len(ops[r]) \in Nat /\ listener[r].begin \in Nat
        /\ \A j \in OpsOf(r) : ops[r][j].ts \in Nat
    BY Zenon, OpTypes, ListenerTypes DEF IInv
  <2>2. \A j \in OpsOf(r) : ops[r][j].ts <= t
    BY <2>1, <1>1, <1>3 DEF IInv, StreamInv
  <2>3. CASE r \in Dispatchees
    <3>2. Attached(r) /\ listener[r].stage # "replying" => ops'[r][Len(ops[r]) + 1].kind = "write"
      BY <2>3, <1>4 DEF IInv, DispatcheeInv, Attached, Readable
    <3>3. Attached(r) => listener[r].begin + Len(ops[r]) = current_timestamp
      BY Zenon, <2>3 DEF IInv, StreamInv
    <3>4. Attached(r) => listener[r].begin + (Len(ops[r]) + 1) = t
      BY SMTT(30), <3>3, <2>1, <1>1, <1>3
    <3>5. ASSUME NEW j \in OpsOf(r)'
          PROVE  /\ ops'[r][j].ts <= t
                 /\ Attached(r) =>
                      /\ ops'[r][j].ts = listener[r].begin + j
                      /\ listener[r].stage # "replying" => ops'[r][j].kind = "write"
                      /\ ~Streaming(r) => ops'[r][j].st \in {"sent", "queued"}
      <4>1. CASE j \in OpsOf(r)
        BY SMTT(30), <4>1, <2>2, <2>3, <1>4 DEF IInv, StreamInv
      <4>2. CASE j = Len(ops[r]) + 1
        BY SMTT(30), <4>2, <3>2, <3>4, <2>3, <1>3, <1>4
      <4> QED
        BY SMTT(30), <4>1, <4>2, <2>3, <1>4
    <3>6. Attached(r) => listener[r].begin + Len(ops'[r]) = t
      BY SMTT(30), <3>4, <2>3, <1>4
    <3> QED
      BY <3>5, <3>6, <1>3
  <2>4. CASE r \notin Dispatchees
    <3>1. Attached(r) => listener[r].begin + Len(ops[r]) <= current_timestamp
      BY SMTT(30) DEF IInv, StreamInv
    <3>2. Attached(r) => listener[r].begin + Len(ops'[r]) <= t
      BY SMTT(30), <3>1, <2>1, <2>4, <1>1, <1>3, <1>4
    <3> QED
      BY <3>2, <2>2, <2>4, <1>4 DEF IInv, StreamInv
  <2> QED
    BY Zenon, <2>3, <2>4
<1>9. ListenerInv'
  <2>a. UNCHANGED <<listener, store>> /\ current_timestamp' = t
    BY Zenon, <1>2
  <2>b. \A r \in Servers : Streaming(r)' <=> Streaming(r)
    BY Zenon, <2>a DEF Streaming
  <2>c. \A r \in Servers : \A j \in OpsOf(r)' : OpInv(r, ops[r][j])' <=> OpInv(r, ops'[r][j])
    BY <2>a DEF OpInv
  <2> SUFFICES ASSUME NEW r \in Servers, Streaming(r)
               PROVE  /\ store[r].earliest = store[r].latest
                      /\ listener[r].begin <= listener[r].backfill_end
                      /\ listener[r].backfill_end <= store[r].earliest
                      /\ store[r].earliest <= listener[r].current
                      /\ listener[r].current <= t
                      /\ listener[r].min <= store[r].earliest
                      /\ store[r].earliest < listener[r].current =>
                           listener[r].current <= listener[r].begin + Len(ops'[r])
                      /\ \A j \in OpsOf(r)' : OpInv(r, ops'[r][j])
    BY Zenon, <2>a, <2>b, <2>c DEF ListenerInv
  <2>1. /\ Len(ops[r]) \in Nat /\ listener[r].begin \in Nat /\ listener[r].current \in Nat
        /\ listener[r].backfill_end \in Nat /\ store[r].earliest \in Nat
    BY Zenon, OpTypes, ListenerTypes DEF IInv
  <2>2. /\ listener[r].current <= current_timestamp
        /\ listener[r].backfill_end <= store[r].earliest
        /\ store[r].earliest <= listener[r].current
        /\ store[r].earliest < listener[r].current =>
               listener[r].current <= listener[r].begin + Len(ops[r])
    BY Zenon DEF IInv, ListenerInv
  <2>3. Len(ops'[r]) \in Nat /\ Len(ops[r]) <= Len(ops'[r])
    BY <1>4, <2>1
  <2>4. listener[r].current < t /\ listener[r].backfill_end < t
    BY SMTT(30), <2>1, <2>2, <1>1, <1>3
  <2>5. r \in Dispatchees => OpInv(r, ops'[r][Len(ops[r]) + 1])
    BY SMTT(30), <2>4, <1>4 DEF OpInv
  <2>6. \A j \in OpsOf(r)' : OpInv(r, ops'[r][j])
    BY <2>5, <1>4 DEF IInv, ListenerInv
  <2>7. store[r].earliest < listener[r].current =>
            listener[r].current <= listener[r].begin + Len(ops'[r])
    BY SMTT(30), <2>1, <2>2, <2>3
  <2>8. listener[r].current <= t
    BY <2>1, <2>4, <1>3
  <2> QED
    BY SMTT(30), <2>6, <2>7, <2>8 DEF IInv, ListenerInv
<1>10. StoreInv'
  <2>1. \A r \in Servers : store[r].latest <= t
    BY ListenerTypes, <1>1, <1>3 DEF IInv, StoreInv
  <2> QED
    BY Zenon, <2>1, <1>2 DEF IInv, StoreInv, StoreIsPrefix
<1>11. DispatcheeInv' /\ PrimaryInv' /\ ReadInv'
  <2>1. SameStages
    BY Zenon, <1>2 DEF SameStages
  <2> QED
    BY Zenon, <2>1, <1>2, DispatcheeFrame, PrimaryFrame DEF IInv, ReadInv
<1> QED
  BY Zenon, <1>5, <1>6, <1>7, <1>8, <1>9, <1>10, <1>11 DEF IInv
=============================================================================
