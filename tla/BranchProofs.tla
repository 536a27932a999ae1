---------------------------- MODULE BranchProofs ----------------------------
(***************************************************************************)
(* BranchInv is an invariant of Branch, and Branch implements              *)
(* ReplicatedLog, for any set of servers, any ack checker and any number   *)
(* of writes, changes and dropped callbacks, in the build that aborts a    *)
(* backfiller whose backfillee is ahead of it.                             *)
(***************************************************************************)
EXTENDS BranchSteps

(* EnqueueWrite keeps the inductive invariant.                             *)
LEMMA EnqueueWriteKeeps ==
    ASSUME IInv, NEW s \in Servers, NEW i \in OpsOf(s), EnqueueWrite(s, i)
    PROVE  IInv'
<1>1. /\ ops[s][i].st = "sent" /\ ops' = [ops EXCEPT ![s][i].st = "queued"]
      /\ UNCHANGED <<broadcaster_vars, dispatchee, latest_acked_write, upgrades, read,
                     listener, store, changes>>
  BY Zenon DEF EnqueueWrite
<1>2. /\ SanityCheck' /\ DispatcheeInv' /\ StreamInv' /\ AnswersInv' /\ ReadInv' /\ PrimaryInv'
      /\ OpChanges(s, i) /\ ops'[s][i].st = "queued"
  <2>1. MovesOp(s, i, "queued")
    BY Zenon, <1>1 DEF MovesOp
  <2>2. "queued" \in OpStates
    BY Zenon DEF OpStates
  <2> QED
    BY Zenon, <2>1, <2>2, MoveFrame
<1>3. TypeOK'
  BY <1>1, <1>2 DEF IInv, TypeOK, OpChanges, broadcaster_vars
<1>4. ListenerInv'
  <2>1. ASSUME NEW r \in Servers, Streaming(r), NEW j \in OpsOf(r) PROVE OpInv(r, ops[r][j])'
    <3>1. OpInv(r, ops[r][j])
      BY Zenon, <2>1 DEF IInv, ListenerInv
    <3>2. /\ ops'[r][j].ts = ops[r][j].ts /\ ops'[r][j].kind = ops[r][j].kind
          /\ \/ ops'[r][j].st = ops[r][j].st
             \/ ops'[r][j].st = "queued" /\ ops[r][j].st = "sent"
      BY <1>1, <1>2 DEF OpChanges
    <3> QED
      BY Zenon, <3>1, <3>2, <1>1 DEF OpInv
  <2> QED
    BY SMTT(30), <2>1, <1>1, <1>2 DEF IInv, ListenerInv, Streaming, OpChanges, broadcaster_vars
<1> QED
  BY Zenon, <1>1, <1>2, <1>3, <1>4, StoreFrame DEF IInv, broadcaster_vars


(* A listener whose queue is empty has drained it.                         *)
LEMMA StageAfterPopTypes ==
    ASSUME NEW s \in Servers
    PROVE  \/ StageAfterPop(s) = listener[s].stage
           \/ listener[s].stage = "streaming" /\ StageAfterPop(s) = "drained"
  BY Zenon DEF StageAfterPop, StageWithQueue

(* SkipWrite keeps the inductive invariant.                                *)
LEMMA SkipWriteKeeps ==
    ASSUME IInv, NEW s \in Servers, NEW i \in OpsOf(s), SkipWrite(s, i)
    PROVE  IInv'
<1>1. PICK stage \in Stages :
        /\ stage = StageAfterPop(s)
        /\ \/ stage = listener[s].stage
           \/ listener[s].stage = "streaming" /\ stage = "drained"
  BY Zenon, StageAfterPopTypes, ListenerTypes DEF IInv, Stages
<1>2. /\ Streaming(s) /\ ops[s][i].st = "queued" /\ ops[s][i].ts <= listener[s].backfill_end
      /\ ops' = [ops EXCEPT ![s][i].st = "skipped"]
      /\ listener' = [listener EXCEPT ![s] = [listener[s] EXCEPT !.stage = stage]]
      /\ UNCHANGED <<broadcaster_vars, dispatchee, latest_acked_write, upgrades, read, store, changes>>
  BY Zenon, <1>1 DEF SkipWrite, AtHeadOfQueue, Queued, InBackfill
<1>3. /\ listener' \in [Servers -> ListenerRecords]
      /\ listener'[s].stage = stage /\ listener'[s].begin = listener[s].begin
      /\ listener'[s].from = listener[s].from /\ listener'[s].backfill_end = listener[s].backfill_end
      /\ listener'[s].current = listener[s].current /\ listener'[s].min = listener[s].min
      /\ \A r \in Servers \ {s} : listener'[r] = listener[r]
  BY <1>2, RecordTypes DEF IInv, ListenerRecords
<1>4. /\ SanityCheck' /\ DispatcheeInv' /\ StreamInv' /\ AnswersInv' /\ ReadInv' /\ PrimaryInv'
      /\ OpChanges(s, i) /\ ops'[s][i].st = "skipped"
  <2>1. MovesOp(s, i, "skipped")
    BY Zenon, <1>1, <1>2, <1>3 DEF MovesOp
  <2>2. "skipped" \in OpStates
    BY Zenon DEF OpStates
  <2> QED
    BY Zenon, <2>1, <2>2, MoveFrame
<1>5. TypeOK'
  BY Zenon, <1>2, <1>3, <1>4 DEF IInv, TypeOK, OpChanges, ListenerRecords, broadcaster_vars
<1>6. \A r \in Servers : Streaming(r)' => Streaming(r)
  BY Zenon, <1>1, <1>2, <1>3 DEF Streaming
<1>7. ListenerInv'
  <2>1. ASSUME NEW r \in Servers, Streaming(r), NEW j \in OpsOf(r) PROVE OpInv(r, ops[r][j])'
    <3>1. OpInv(r, ops[r][j])
      BY Zenon, <2>1 DEF IInv, ListenerInv
    <3>2. CASE r = s /\ j = i
      BY <3>1, <3>2, <1>2, <1>3, <1>4 DEF OpInv, OpChanges
    <3>3. CASE r # s \/ j # i
      <4>1. ops'[r][j] = ops[r][j]
        BY Zenon, <3>3, <1>4 DEF OpChanges
      <4> QED
        BY Zenon, <3>1, <4>1, <1>2, <1>3 DEF OpInv
    <3> QED
      BY Zenon, <3>2, <3>3
  <2>2. \A r \in Servers : /\ listener'[r].begin = listener[r].begin
                           /\ listener'[r].backfill_end = listener[r].backfill_end
                           /\ listener'[r].current = listener[r].current
                           /\ listener'[r].min = listener[r].min
    BY Zenon, <1>3
  <2>3. \A r \in Servers : OpsOf(r)' = OpsOf(r) /\ Len(ops'[r]) = Len(ops[r])
    BY Zenon, <1>4 DEF OpChanges
  <2>4. current_timestamp' = current_timestamp /\ store' = store
    BY Zenon, <1>2 DEF broadcaster_vars
  <2> QED
    BY Zenon, <2>1, <2>2, <2>3, <2>4, <1>6 DEF IInv, ListenerInv
<1>8. StoreInv'
  <2>1. \A r \in Servers : listener'[r].stage = "backfilling" => listener'[r] = listener[r]
    BY Zenon, <1>1, <1>2, <1>3 DEF Streaming
  <2> QED
    BY Zenon, <2>1, <1>2 DEF IInv, StoreInv, StoreIsPrefix, broadcaster_vars
<1> QED
  BY Zenon, <1>4, <1>5, <1>7, <1>8 DEF IInv

(* TakeWriteToken keeps the inductive invariant.                           *)
LEMMA TakeWriteTokenKeeps ==
    ASSUME IInv, NEW s \in Servers, NEW i \in OpsOf(s),
           PerformEnqueuedWrite(s, i) \/ LocalWriteread(s, i)
    PROVE  IInv'
<1>1. PICK stage \in Stages :
        /\ TakeWriteToken(s, i, stage)
        /\ \/ stage = listener[s].stage
           \/ listener[s].stage = "streaming" /\ stage = "drained"
  BY StageAfterPopTypes, ListenerTypes DEF PerformEnqueuedWrite, LocalWriteread, IInv, Stages
<1>2. /\ Streaming(s) /\ ops[s][i].st \in {"sent", "queued"} /\ StoreEntrance(s, i)
      /\ listener[s].backfill_end < ops[s][i].ts
  <2>1. CASE PerformEnqueuedWrite(s, i)
    <3>1. Streaming(s) /\ ops[s][i].st = "queued" /\ StoreEntrance(s, i)
          /\ ~(ops[s][i].ts <= listener[s].backfill_end)
      BY Zenon, <2>1 DEF PerformEnqueuedWrite, QueuedWriteMayGo, AtHeadOfQueue, Queued, InBackfill
    <3>2. ops[s][i].ts \in Nat /\ listener[s].backfill_end \in Nat
      BY Zenon, OpTypes, ListenerTypes DEF IInv
    <3> QED
      BY SMTT(30), <3>1, <3>2
  <2>2. CASE LocalWriteread(s, i)
    BY Zenon, <2>2 DEF LocalWriteread, WritereadMayGo, IInv, ListenerInv, OpInv
  <2> QED
    BY Zenon, <2>1, <2>2
<1>3. ops[s][i].ts = listener[s].current + 1
  BY Zenon, <1>2, EntranceIsNext
<1>4. PICK t \in Timestamps : t = ops[s][i].ts
  BY Zenon, OpTypes DEF IInv
<1>5. /\ ops' = [ops EXCEPT ![s][i].st = "executing"]
      /\ listener' = [listener EXCEPT ![s] = [listener[s] EXCEPT !.current = t, !.stage = stage]]
      /\ UNCHANGED <<broadcaster_vars, dispatchee, latest_acked_write, upgrades, read, store, changes>>
  BY Zenon, <1>1, <1>4 DEF TakeWriteToken
<1>6. /\ listener' \in [Servers -> ListenerRecords]
      /\ listener'[s].stage = stage /\ listener'[s].begin = listener[s].begin
      /\ listener'[s].from = listener[s].from /\ listener'[s].backfill_end = listener[s].backfill_end
      /\ listener'[s].current = t /\ listener'[s].min = listener[s].min
      /\ \A r \in Servers \ {s} : listener'[r] = listener[r]
  <2>1. t \in Versions
    BY DEF Timestamps, Versions
  <2> QED
    BY Zenon, <2>1, <1>5, RecordTypes DEF IInv, ListenerRecords
<1>7. /\ SanityCheck' /\ DispatcheeInv' /\ StreamInv' /\ AnswersInv' /\ ReadInv' /\ PrimaryInv'
      /\ OpChanges(s, i) /\ ops'[s][i].st = "executing"
  <2>1. MovesOp(s, i, "executing")
    BY Zenon, <1>1, <1>2, <1>5, <1>6 DEF MovesOp
  <2>2. "executing" \in OpStates
    BY Zenon DEF OpStates
  <2> QED
    BY Zenon, <2>1, <2>2, MoveFrame
<1>8. TypeOK'
  BY Zenon, <1>5, <1>6, <1>7 DEF IInv, TypeOK, OpChanges, ListenerRecords, broadcaster_vars
<1>9. \A r \in Servers : Streaming(r)' => Streaming(r)
  BY Zenon, <1>1, <1>2, <1>6 DEF Streaming
<1>10. /\ t \in Nat /\ i \in Nat /\ Len(ops[s]) \in Nat /\ i <= Len(ops[s])
       /\ listener[s].begin \in Nat /\ listener[s].current \in Nat /\ store[s].earliest \in Nat
       /\ current_timestamp \in Nat
  BY SMTT(30), NumberTypes, OpTypes, ListenerTypes DEF IInv, OpsOf
<1>11. /\ t = listener[s].current + 1 /\ t = listener[s].begin + i /\ t <= current_timestamp
       /\ store[s].earliest <= listener[s].current
  BY Zenon, <1>2, <1>3, <1>4 DEF IInv, StreamInv, ListenerInv, Attached, Streaming
<1>12. /\ store[s].earliest <= t /\ store[s].earliest < t
       /\ t <= listener[s].begin + Len(ops[s]) /\ listener[s].current <= t
  <2>1. PICK b \in Nat, e \in Nat, c \in Nat, n \in Nat :
          b = listener[s].begin /\ e = store[s].earliest /\ c = listener[s].current /\ n = Len(ops[s])
    BY SMTT(30), <1>10
  <2>2. t = c + 1 /\ t = b + i /\ e <= c /\ i <= n /\ t \in Nat /\ i \in Nat
    BY Zenon, <2>1, <1>10, <1>11
  <2>3. e <= t /\ e < t /\ t <= b + n /\ c <= t
    BY ONLY <2>2, b \in Nat, e \in Nat, c \in Nat, n \in Nat
  <2> QED
    BY Zenon, <2>1, <2>3
<1>13. ASSUME NEW j \in OpsOf(s) PROVE OpInv(s, ops[s][j])'
  <2>1. OpInv(s, ops[s][j]) /\ ops[s][j].ts \in Nat
    BY Zenon, <1>2, OpTypes DEF IInv, ListenerInv
  <2>2. CASE j = i
    BY <2>1, <2>2, <1>2, <1>4, <1>5, <1>6, <1>7, <1>10, <1>12 DEF OpInv, OpChanges
  <2>3. CASE j # i
    <3>1. ops'[s][j] = ops[s][j]
      BY Zenon, <2>3, <1>7 DEF OpChanges
    <3>2. ops[s][j].ts = listener[s].begin + j /\ j \in Nat
      BY Zenon, <1>2, OpTypes DEF IInv, StreamInv, Attached, Streaming
    <3>3. ops[s][j].ts # t
      BY SMTT(30), <3>2, <2>3, <1>10, <1>11
    <3>4. listener[s].current < ops[s][j].ts => t < ops[s][j].ts
      BY <3>3, <2>1, <1>10, <1>11
    <3>5. ops[s][j].ts <= listener[s].current => ops[s][j].ts <= t
      BY SMTT(30), <2>1, <1>10, <1>12
    <3> QED
      BY Zenon, <2>1, <3>1, <3>4, <3>5, <1>5, <1>6 DEF OpInv
  <2> QED
    BY Zenon, <2>2, <2>3
<1>14. ListenerInv'
  <2>1. ASSUME NEW r \in Servers, Streaming(r), NEW j \in OpsOf(r) PROVE OpInv(r, ops[r][j])'
    <3>1. CASE r = s
      BY Zenon, <3>1, <1>13
    <3>2. CASE r # s
      <4>1. OpInv(r, ops[r][j]) /\ ops'[r][j] = ops[r][j]
        BY Zenon, <3>2, <2>1, <1>7 DEF IInv, ListenerInv, OpChanges
      <4> QED
        BY Zenon, <3>2, <4>1, <1>5, <1>6 DEF OpInv
    <3> QED
      BY Zenon, <3>1, <3>2
  <2>2. ASSUME NEW r \in Servers, Streaming(r)
        PROVE  /\ store[r].earliest <= listener'[r].current
               /\ listener'[r].current <= current_timestamp
               /\ store[r].earliest < listener'[r].current =>
                      listener'[r].current <= listener[r].begin + Len(ops[r])
    <3>1. CASE r = s
      BY Zenon, <3>1, <1>6, <1>11, <1>12
    <3>2. CASE r # s
      BY Zenon, <3>2, <2>2, <1>6 DEF IInv, ListenerInv
    <3> QED
      BY Zenon, <3>1, <3>2
  <2>3. \A r \in Servers : /\ listener'[r].begin = listener[r].begin
                           /\ listener'[r].backfill_end = listener[r].backfill_end
                           /\ listener'[r].min = listener[r].min
    BY Zenon, <1>6
  <2>4. \A r \in Servers : OpsOf(r)' = OpsOf(r) /\ Len(ops'[r]) = Len(ops[r])
    BY Zenon, <1>7 DEF OpChanges
  <2>5. current_timestamp' = current_timestamp /\ store' = store
    BY Zenon, <1>5 DEF broadcaster_vars
  <2> QED
    BY <2>1, <2>2, <2>3, <2>4, <2>5, <1>9 DEF IInv, ListenerInv
<1>15. StoreInv'
  <2>1. \A r \in Servers : listener'[r].stage = "backfilling" => listener'[r] = listener[r]
    BY Zenon, <1>1, <1>2, <1>6 DEF Streaming
  <2> QED
    BY Zenon, <2>1, <1>5 DEF IInv, StoreInv, StoreIsPrefix, broadcaster_vars
<1> QED
  BY Zenon, <1>7, <1>8, <1>14, <1>15 DEF IInv


(* ApplyWrite keeps the inductive invariant.                               *)
LEMMA ApplyWriteKeeps ==
    ASSUME IInv, NEW s \in Servers, NEW i \in OpsOf(s), ApplyWrite(s, i)
    PROVE  IInv'
<1>1. PICK t \in Timestamps : t = ops[s][i].ts
  BY Zenon, OpTypes DEF IInv
<1>2. /\ Streaming(s) /\ ops[s][i].st = "executing"
      /\ \A j \in 1 .. i - 1 : ops[s][j].st # "executing"
      /\ ops' = [ops EXCEPT ![s][i].st = "applied"]
      /\ store' = [store EXCEPT ![s] = [earliest |-> t, latest |-> t, data |-> store[s].data \cup {t}]]
      /\ UNCHANGED <<broadcaster_vars, dispatchee, latest_acked_write, upgrades, read,
                     listener, changes>>
  BY Zenon, <1>1 DEF ApplyWrite
<1>3. ops[s][i].ts = store[s].earliest + 1
  BY Zenon, <1>2, OldestTokenIsNext
<1>4. /\ store' \in [Servers -> StoreRecords]
      /\ store'[s].earliest = t /\ store'[s].latest = t /\ store'[s].data = store[s].data \cup {t}
      /\ \A r \in Servers \ {s} : store'[r] = store[r]
  <2>1. t \in Versions
    BY DEF Timestamps, Versions
  <2> QED
    BY Zenon, <2>1, <1>2, RecordTypes DEF IInv, StoreRecords
<1>5. /\ SanityCheck' /\ DispatcheeInv' /\ StreamInv' /\ AnswersInv' /\ ReadInv' /\ PrimaryInv'
      /\ OpChanges(s, i) /\ ops'[s][i].st = "applied"
  <2>1. MovesOp(s, i, "applied")
    BY Zenon, <1>2 DEF MovesOp
  <2>2. "applied" \in OpStates
    BY Zenon DEF OpStates
  <2> QED
    BY Zenon, <2>1, <2>2, MoveFrame
<1>6. TypeOK'
  BY Zenon, <1>2, <1>4, <1>5 DEF IInv, TypeOK, OpChanges, StoreRecords, broadcaster_vars
<1>7. PICK b \in Nat, e \in Nat, c \in Nat, end \in Nat, m \in Nat, n \in Nat, now \in Nat :
        /\ b = listener[s].begin /\ e = store[s].earliest /\ c = listener[s].current
        /\ end = listener[s].backfill_end /\ m = listener[s].min /\ n = Len(ops[s])
        /\ now = current_timestamp
  BY Zenon, NumberTypes, OpTypes, ListenerTypes DEF IInv
<1>8. /\ e = store[s].latest /\ b <= end /\ end <= e /\ c <= now /\ m <= e
      /\ e < c => c <= b + n
  BY Zenon, <1>2, <1>7 DEF IInv, ListenerInv
<1>9. t = e + 1 /\ t <= c /\ t \in Nat
  <2>1. t <= c
    BY <1>1, <1>2, <1>7 DEF IInv, ListenerInv, OpInv
  <2> QED
    BY <2>1, <1>1, <1>3, <1>7
<1>10. end < t /\ end <= t /\ t <= now /\ m <= t /\ c <= b + n /\ e <= t
  BY ONLY <1>8, <1>9, b \in Nat, e \in Nat, c \in Nat, end \in Nat, m \in Nat, n \in Nat, now \in Nat
<1>11. StoreInv'
  <2>1. store[s].data = 1 .. e
    BY Zenon, <1>7, <1>8 DEF IInv, StoreInv, StoreIsPrefix
  <2>2. (1 .. e) \cup {t} = 1 .. t
    BY <1>9
  <2>3. StoreIsPrefix'
    BY Zenon, <2>1, <2>2, <1>4 DEF IInv, StoreInv, StoreIsPrefix
  <2>4. listener[s].stage # "backfilling"
    BY Zenon, <1>2 DEF Streaming
  <2> QED
    BY <2>3, <2>4, <1>2, <1>4, <1>7, <1>10 DEF IInv, StoreInv, broadcaster_vars
<1>12. ASSUME NEW j \in OpsOf(s) PROVE OpInv(s, ops[s][j])'
  <2>1. OpInv(s, ops[s][j]) /\ ops[s][j].ts \in Nat
    BY <1>2, OpTypes DEF IInv, ListenerInv
  <2>2. CASE j = i
    <3>1. ops'[s][j].st = "applied" /\ ops'[s][j].ts = t /\ ops'[s][j].kind = ops[s][j].kind
      BY Zenon, <2>2, <1>1, <1>5 DEF OpChanges
    <3> QED
      BY <3>1, <1>2, <1>4, <1>7, <1>9, <1>10 DEF OpInv
  <2>3. CASE j # i
    <3>1. ops'[s][j] = ops[s][j]
      BY Zenon, <2>3, <1>5 DEF OpChanges
    <3>2. ops[s][j].ts = b + j /\ t = b + i /\ j \in Nat /\ i \in Nat
      BY Zenon, <1>1, <1>2, <1>7, OpTypes DEF IInv, StreamInv, Attached, Streaming
    <3>3. ops[s][j].ts # t
      BY <3>2, <2>3, <1>7
    <3>4. e < ops[s][j].ts => t < ops[s][j].ts
      BY SMTT(30), <3>3, <2>1, <1>7, <1>9
    <3>5. ops[s][j].ts <= e => ops[s][j].ts <= t
      BY <2>1, <1>7, <1>9
    <3> QED
      BY Zenon, <2>1, <3>1, <3>4, <3>5, <1>2, <1>4, <1>7 DEF OpInv
  <2> QED
    BY Zenon, <2>2, <2>3
<1>13. ListenerInv'
  <2>1. ASSUME NEW r \in Servers, Streaming(r), NEW j \in OpsOf(r) PROVE OpInv(r, ops[r][j])'
    <3>1. CASE r = s
      BY Zenon, <3>1, <1>12
    <3>2. CASE r # s
      <4>1. OpInv(r, ops[r][j]) /\ ops'[r][j] = ops[r][j]
        BY Zenon, <3>2, <2>1, <1>5 DEF IInv, ListenerInv, OpChanges
      <4> QED
        BY Zenon, <3>2, <4>1, <1>2, <1>4 DEF OpInv
    <3> QED
      BY Zenon, <3>1, <3>2
  <2>2. ASSUME NEW r \in Servers, Streaming(r)
        PROVE  /\ store'[r].earliest = store'[r].latest
               /\ listener[r].backfill_end <= store'[r].earliest
               /\ store'[r].earliest <= listener[r].current
               /\ listener[r].min <= store'[r].earliest
               /\ store'[r].earliest < listener[r].current =>
                      listener[r].current <= listener[r].begin + Len(ops[r])
    <3>1. CASE r = s
      BY Zenon, <3>1, <1>4, <1>7, <1>9, <1>10
    <3>2. CASE r # s
      BY Zenon, <3>2, <2>2, <1>4 DEF IInv, ListenerInv
    <3> QED
      BY Zenon, <3>1, <3>2
  <2>3. \A r \in Servers : OpsOf(r)' = OpsOf(r) /\ Len(ops'[r]) = Len(ops[r])
    BY Zenon, <1>5 DEF OpChanges
  <2>4. current_timestamp' = current_timestamp /\ listener' = listener
        /\ \A r \in Servers : Streaming(r)' <=> Streaming(r)
    BY Zenon, <1>2 DEF Streaming, broadcaster_vars
  <2> QED
    BY <2>1, <2>2, <2>3, <2>4 DEF IInv, ListenerInv
<1> QED
  BY Zenon, <1>5, <1>6, <1>11, <1>13 DEF IInv

-----------------------------------------------------------------------------
(* The inductive invariant holds at the start.                             *)
LEMMA InitIInv == Init => IInv
<1> SUFFICES ASSUME Init PROVE IInv
  BY Zenon
<1>1. /\ 0 \in Versions /\ NoListener \in ListenerRecords /\ EmptyStore \in StoreRecords
      /\ [NoListener EXCEPT !.stage = "replying"] \in ListenerRecords
  <2>1. 0 \in Versions
    BY BranchAssumption DEF Versions
  <2> QED
    BY Zenon, <2>1 DEF NoListener, EmptyStore, ListenerRecords, StoreRecords, Stages
<1>2. \A s \in Servers : /\ listener[s].stage = IF s = Primary THEN "replying" ELSE "off"
                         /\ listener[s].begin = 0 /\ listener[s].from = None
                         /\ listener[s].backfill_end = 0 /\ listener[s].current = 0
                         /\ listener[s].min = 0
                         /\ store[s].earliest = 0 /\ store[s].latest = 0 /\ store[s].data = {}
                         /\ dispatchee[s] = IF s = Primary THEN "readable" ELSE "none"
                         /\ ops[s] = <<>> /\ OpsOf(s) = {}
  BY DEF Init, NoListener, EmptyStore, OpsOf
<1>3. TypeOK
  <2>1. /\ listener \in [Servers -> ListenerRecords] /\ store \in [Servers -> StoreRecords]
        /\ ops \in [Servers -> Seq(Op)] /\ incomplete_writes \in Seq(Timestamps)
        /\ latest_acked_write \in [Servers -> Versions]
    BY <1>1 DEF Init
  <2> QED
    BY <2>1, <1>1, BranchAssumption DEF Init, TypeOK, ListenerRecords, StoreRecords
<1>4. SanityCheck /\ ReadInv /\ PrimaryInv
  <2>1. SanityCheck
    BY DEF Init, SanityCheck
  <2>2. ReadInv /\ PrimaryInv
    BY Zenon, <1>2, BranchAssumption DEF Init, ReadInv, PrimaryInv
  <2> QED
    BY Zenon, <2>1, <2>2
<1>5. DispatcheeInv /\ StreamInv /\ ListenerInv
  BY <1>2 DEF Init, DispatcheeInv, StreamInv, ListenerInv, Attached, Streaming, Dispatchees
<1>6. StoreInv
  BY <1>2 DEF Init, StoreInv, StoreIsPrefix
<1>7. AnswersInv
  BY Zenon DEF Init, AnswersInv, AnswersMatchAcks
<1> QED
  BY Zenon, <1>3, <1>4, <1>5, <1>6, <1>7 DEF IInv

(* The inductive invariant implies BranchInv.                              *)
LEMMA IInvIsEnough == IInv => BranchInv
<1> SUFFICES ASSUME IInv PROVE BranchInv
  BY Zenon
<1>1. DispatchedExactlyOnce
  <2> SUFFICES ASSUME NEW s \in Dispatchees, Attached(s)
               PROVE  /\ Len(ops[s]) = current_timestamp - listener[s].begin
                      /\ \A i \in OpsOf(s) : ops[s][i].ts = listener[s].begin + i
    BY Zenon DEF DispatchedExactlyOnce, Attached
  <2>1. s \in Servers
    BY Zenon DEF Dispatchees
  <2>2. Len(ops[s]) \in Nat /\ listener[s].begin \in Nat /\ current_timestamp \in Nat
    BY Zenon, <2>1, NumberTypes, OpTypes, ListenerTypes DEF IInv
  <2>3. listener[s].begin + Len(ops[s]) = current_timestamp
    BY Zenon, <2>1 DEF IInv, StreamInv
  <2>4. Len(ops[s]) = current_timestamp - listener[s].begin
    BY SMTT(30), <2>2, <2>3
  <2> QED
    BY Zenon, <2>1, <2>4 DEF IInv, StreamInv
<1>2. ListenerGuarantees
  <2> SUFFICES ASSUME NEW s \in Servers, Streaming(s)
               PROVE  /\ listener[s].backfill_end >= listener[s].begin
                      /\ \A i \in OpsOf(s) : QueuedWriteMayGo(s, i) \/ WritereadMayGo(s, i) =>
                             ops[s][i].ts = listener[s].current + 1
    BY Zenon DEF ListenerGuarantees
  <2>1. listener[s].begin \in Nat /\ listener[s].backfill_end \in Nat
    BY Zenon, ListenerTypes DEF IInv
  <2>2. listener[s].begin <= listener[s].backfill_end
    BY Zenon DEF IInv, ListenerInv
  <2>3. ASSUME NEW i \in OpsOf(s), QueuedWriteMayGo(s, i) PROVE ops[s][i].ts = listener[s].current + 1
    <3>1. ops[s][i].st = "queued" /\ StoreEntrance(s, i) /\ ~(ops[s][i].ts <= listener[s].backfill_end)
      BY Zenon, <2>3 DEF QueuedWriteMayGo, AtHeadOfQueue, Queued, InBackfill
    <3>2. listener[s].backfill_end < ops[s][i].ts
      BY SMTT(30), <3>1, <2>1, OpTypes DEF IInv
    <3> QED
      BY Zenon, <3>1, <3>2, EntranceIsNext
  <2>4. ASSUME NEW i \in OpsOf(s), WritereadMayGo(s, i) PROVE ops[s][i].ts = listener[s].current + 1
    <3>1. ops[s][i].st = "sent" /\ StoreEntrance(s, i) /\ listener[s].backfill_end < ops[s][i].ts
      BY Zenon, <2>4 DEF WritereadMayGo, IInv, ListenerInv, OpInv
    <3> QED
      BY Zenon, <3>1, EntranceIsNext
  <2> QED
    BY Zenon, <2>1, <2>2, <2>3, <2>4
<1>3. AckedWritesAreSeen
  <2> SUFFICES ASSUME NEW s \in Servers, ReadMayGo(s) PROVE read.must_see \subseteq 1 .. store[s].earliest
    BY Zenon DEF AckedWritesAreSeen, IInv, StoreInv, StoreIsPrefix
  <2>1. /\ read.must_see \subseteq 1 .. read.token /\ read.token \in Nat
        /\ read.token <= listener[s].min /\ listener[s].min \in Nat /\ store[s].earliest \in Nat
        /\ listener[s].min <= store[s].earliest
    BY SMTT(30), ListenerTypes, NumberTypes DEF ReadMayGo, IInv, ReadInv, ListenerInv, TypeOK
  <2> QED
    BY SMTT(30), <2>1
<1> QED
  BY Zenon, <1>1, <1>2, <1>3 DEF BranchInv, IInv, StoreInv, AnswersInv

-----------------------------------------------------------------------------
(* The refinement of ReplicatedLog.                                        *)

(* What Log puts for contents and reading. *)
Contents == [s \in Servers |-> IF Coherent(s) THEN store[s].data
                               ELSE store[s].data \cap (1 .. store[s].earliest)]
Reading == IF read = None THEN None ELSE [from |-> read.from, must_see |-> read.must_see]

StorePrefixes == [s \in Servers |-> 1 .. store[s].earliest]

(* Every store holds a prefix of the writes.                               *)
LEMMA ContentsArePrefixes == IInv => Contents = StorePrefixes
<1> SUFFICES ASSUME IInv PROVE Contents = StorePrefixes
  BY Zenon
<1>1. \A s \in Servers : Coherent(s) => store[s].data = 1 .. store[s].earliest
  BY Zenon DEF Coherent, IInv, StoreInv, StoreIsPrefix
<1>2. \A s \in Servers : store[s].data \cap (1 .. store[s].earliest) = 1 .. store[s].earliest
  BY Zenon DEF IInv, StoreInv, StoreIsPrefix
<1> QED
  BY Zenon, <1>1, <1>2 DEF Contents, StorePrefixes

(* A branch begins as an empty log.                                        *)
LEMMA LogInit == Init => Log!Init
<1> SUFFICES ASSUME Init PROVE Log!Init
  BY Zenon
<1>1. Contents = [s \in Servers |-> {}]
  BY Zenon DEF Init, Contents, Coherent, EmptyStore
<1> QED
  BY Zenon, <1>1 DEF Init, Log!Init, Contents, Log!Timestamps, Timestamps

(* The log is read when the branch is.                                     *)
LEMMA ReadingIsNone ==
    ASSUME TypeOK
    PROVE  read = None <=> Reading = None
  BY SMTT(30), BranchAssumption DEF TypeOK, Reading, Timestamps

(* The steps that change nothing a client or a store sees.                 *)
LEMMA LogStutters ==
    ASSUME UNCHANGED <<current_timestamp, callback, store, read>>
    PROVE  UNCHANGED Log!vars
  BY Zenon DEF Log!vars, Coherent

(* A store that changes moves along the log.                               *)
LEMMA LogMoves ==
    ASSUME IInv, IInv', NEW s \in Servers, UNCHANGED <<current_timestamp, callback, read>>,
           \A r \in Servers \ {s} : store'[r].earliest = store[r].earliest,
           s = Primary => store[s].earliest <= store'[s].earliest
    PROVE  Log!Move(s)
<1>1. /\ Contents = [r \in Servers |-> 1 .. store[r].earliest]
      /\ Contents' = [r \in Servers |-> 1 .. store'[r].earliest]
  <2>1. Contents = StorePrefixes
    BY Zenon, ContentsArePrefixes
  <2>2. (Contents = StorePrefixes)'
    BY ContentsArePrefixes, PTL
  <2> QED
    BY Zenon, <2>1, <2>2 DEF StorePrefixes
<1>a. store'[s].earliest \in Nat /\ store'[s].latest \in Nat /\ current_timestamp \in Nat
  <2>1. Versions \subseteq Nat
    BY DEF Versions
  <2> QED
    BY SMTT(30), <2>1 DEF IInv, TypeOK
<1>2. PICK v \in Nat : v = store'[s].earliest
  BY Zenon, <1>a
<1>3. v \in 0 .. current_timestamp
  <2>1. 1 .. v \subseteq store'[s].data /\ store'[s].data \subseteq 1 .. store'[s].latest
        /\ store'[s].latest <= current_timestamp
    BY Zenon, <1>2 DEF IInv, StoreInv, StoreIsPrefix
  <2>2. store'[s].latest \in Nat /\ current_timestamp \in Nat
    BY Zenon, <1>a
  <2>3. v # 0 => v \in 1 .. store'[s].latest
    BY <2>1
  <2> QED
    BY <2>1, <2>2, <2>3
<1>4. s = Primary => Contents[s] \subseteq 1 .. v
  <2>1. store[s].earliest \in Nat
    BY Zenon, ListenerTypes DEF IInv
  <2> QED
    BY <2>1, <1>1, <1>2
<1>5. Contents' = [Contents EXCEPT ![s] = 1 .. v]
  BY Zenon, <1>1, <1>2
<1>6. Reading' = Reading
  BY Zenon DEF Reading
<1> QED
  BY Zenon, <1>3, <1>4, <1>5, <1>6 DEF Log!Move, Contents, Reading


(* A write that ends fails its callback if nobody has called it yet.       *)
LEMMA LogReleases ==
    ASSUME IInv, NEW s \in Servers, NEW i \in OpsOf(s), NEW cb, ReleaseRef(s, i, cb)
    PROVE  \/ callback' = cb
           \/ \E t \in Timestamps : /\ t = ops[s][i].ts /\ cb[t] = "pending"
                                    /\ callback' = [cb EXCEPT ![t] = "failure"]
<1>1. PICK t \in Timestamps : t = ops[s][i].ts
  BY Zenon, OpTypes DEF IInv
<1>2. callback' = cb \/ EndWrite(t, cb)
  BY Zenon, <1>1 DEF ReleaseRef
<1> QED
  BY Zenon, <1>1, <1>2 DEF EndWrite

(* An answer to a write is one of the log.                                 *)
LEMMA LogAnswers ==
    ASSUME IInv, NEW t \in Timestamps, NEW a \in {"success", "failure", "dropped"},
           callback[t] = "pending", callback' = [callback EXCEPT ![t] = a],
           UNCHANGED <<current_timestamp, store, read>>
    PROVE  Log!Answer(t)
  BY Zenon DEF Log!Answer, Coherent

(* A step of a write is a step of the log or none.                         *)
LEMMA LogSomeWrite ==
    ASSUME IInv, SomeWrite
    PROVE  Log!Next \/ UNCHANGED Log!vars
<1>1. ASSUME NEW t \in Timestamps, Log!Answer(t) PROVE Log!Next
  BY Zenon, <1>1 DEF Log!Next, Log!Timestamps, Timestamps
<1>2. CASE SpawnWrite
  <2>1. current_timestamp \in Nat /\ MaxTimestamp \in Nat
    BY Zenon, NumberTypes DEF IInv
  <2>2. Log!Write
    BY <1>2, <2>1 DEF SpawnWrite, Log!Write, Timestamps, Coherent
  <2> QED
    BY Zenon, <2>2 DEF Log!Next
<1>3. ASSUME NEW t \in Timestamps, DropCallback(t) PROVE Log!Next
  <2>1. Log!Answer(t)
    BY Zenon, <1>3, LogAnswers DEF DropCallback
  <2> QED
    BY Zenon, <2>1, <1>1
<1>4. ASSUME NEW s \in Servers, NEW i \in OpsOf(s), BackgroundWrite(s, i) \/ BackgroundInterrupted(s, i)
      PROVE  Log!Next \/ UNCHANGED Log!vars
  <2>1. PICK cb : cb = callback
    BY Zenon
  <2>2. ReleaseRef(s, i, cb) /\ UNCHANGED <<current_timestamp, store, read>>
    BY Zenon, <1>4, <2>1 DEF BackgroundWrite, BackgroundInterrupted
  <2>3. CASE callback' = cb
    BY Zenon, <2>1, <2>2, <2>3, LogStutters
  <2>4. ASSUME NEW t \in Timestamps, cb[t] = "pending", callback' = [cb EXCEPT ![t] = "failure"]
        PROVE  Log!Next
    BY Zenon, <2>1, <2>2, <2>4, <1>1, LogAnswers
  <2> QED
    BY <2>2, <2>3, <2>4, LogReleases
<1>5. ASSUME NEW s \in Servers, NEW i \in OpsOf(s), BackgroundWriteread(s, i)
      PROVE  Log!Next \/ UNCHANGED Log!vars
  <2>1. PICK t \in Timestamps : t = ops[s][i].ts
    BY Zenon, OpTypes DEF IInv
  <2> DEFINE called == ack_set[t] \cup {s} \in AckSets /\ callback[t] = "pending"
  <2>2. PICK cb : cb = IF called THEN [callback EXCEPT ![t] = "success"] ELSE callback
    BY Zenon
  <2>3. ReleaseRef(s, i, cb) /\ UNCHANGED <<current_timestamp, store, read>>
    BY Zenon, <1>5, <2>1, <2>2 DEF BackgroundWriteread
  <2>4. callback' = cb \/ (cb[t] = "pending" /\ callback' = [cb EXCEPT ![t] = "failure"])
    BY <2>1, <2>3, LogReleases
  <2>5. callback \in [Timestamps -> CallbackStates]
    BY Zenon DEF IInv, TypeOK, CallbackStates
  <2>6. CASE called
    <3>1. callback[t] = "pending" /\ callback' = [callback EXCEPT ![t] = "success"]
      BY Zenon, <2>2, <2>4, <2>5, <2>6
    <3> QED
      BY Zenon, <3>1, <2>3, <1>1, LogAnswers
  <2>7. CASE ~called
    <3>1. \/ callback' = callback
          \/ callback[t] = "pending" /\ callback' = [callback EXCEPT ![t] = "failure"]
      BY Zenon, <2>2, <2>4, <2>7
    <3> QED
      BY Zenon, <3>1, <2>3, <1>1, LogAnswers, LogStutters
  <2> QED
    BY Zenon, <2>6, <2>7
<1> QED
  BY Zenon, <1>2, <1>3, <1>4, <1>5 DEF SomeWrite


(* A read of the branch begins as one of the log.                          *)
LEMMA LogStartRead ==
    ASSUME IInv, NEW mirrors \in (SUBSET Servers) \ {{}}, StartRead(mirrors)
    PROVE  Log!StartRead
<1>1. Reading = None
  BY Zenon, ReadingIsNone DEF IInv, StartRead
<1>2. Acknowledged = Log!Successes
  BY Zenon DEF Acknowledged, Log!Successes, Log!Timestamps, Timestamps
<1>3. Reading' = [from |-> mirrors, must_see |-> Log!Successes]
  <2>1. read' = [from |-> mirrors, token |-> most_recent_acked_write_timestamp,
                 must_see |-> Acknowledged]
    BY Zenon DEF StartRead
  <2>2. Acknowledged \in SUBSET Timestamps /\ most_recent_acked_write_timestamp \in Versions
    BY Zenon DEF Acknowledged, IInv, TypeOK
  <2>3. read' # None
    BY <2>1, <2>2, BranchAssumption DEF Versions, Timestamps
  <2> QED
    BY Zenon, <2>1, <2>3, <1>2 DEF Reading
<1> QED
  BY Zenon, <1>1, <1>3 DEF Log!StartRead, Reading, StartRead, broadcaster_vars, Coherent

(* A read of the branch sees what the log allows.                          *)
LEMMA LogPerformRead ==
    ASSUME IInv, NEW s \in Servers, PerformRead(s)
    PROVE  Log!PerformRead(s)
<1>1. read # None /\ read \in [from : SUBSET Servers, token : Versions, must_see : SUBSET Timestamps]
      /\ s \in read.from
  BY Zenon DEF PerformRead, ReadMayGo, IInv, TypeOK
<1>2. /\ Reading = [from |-> read.from, must_see |-> read.must_see] /\ Reading # None
      /\ Reading.from = read.from /\ Reading.must_see = read.must_see
  BY Zenon, <1>1, ReadingIsNone DEF Reading, IInv
<1>3. read.must_see \subseteq Contents[s]
  <2>1. Contents[s] = 1 .. store[s].earliest
    BY Zenon, ContentsArePrefixes DEF StorePrefixes
  <2>2. /\ read.must_see \subseteq 1 .. read.token /\ read.token \in Nat
        /\ read.token <= listener[s].min /\ listener[s].min \in Nat /\ store[s].earliest \in Nat
        /\ listener[s].min <= store[s].earliest
    BY Zenon, ListenerTypes, NumberTypes DEF PerformRead, ReadMayGo, IInv, ReadInv, ListenerInv, TypeOK
  <2> QED
    BY <2>1, <2>2
<1>4. Reading' = IF Reading.from = {s} THEN None ELSE [Reading EXCEPT !.from = Reading.from \ {s}]
  <2>1. CASE read.from = {s}
    BY Zenon, <2>1, <1>2 DEF PerformRead, Reading
  <2>2. CASE read.from # {s}
    <3>1. read' = [read EXCEPT !.from = read.from \ {s}]
      BY Zenon, <2>2 DEF PerformRead
    <3>2. read' \in [from : SUBSET Servers, token : Versions, must_see : SUBSET Timestamps]
          /\ read'.from = read.from \ {s} /\ read'.must_see = read.must_see
      BY Zenon, <3>1, <1>1
    <3>3. read' # None
      BY Zenon, <3>2, BranchAssumption DEF Versions, Timestamps
    <3>4. Reading' = [from |-> read.from \ {s}, must_see |-> read.must_see]
      BY Zenon, <3>2, <3>3 DEF Reading
    <3> QED
      BY Zenon, <3>4, <2>2, <1>2
  <2> QED
    BY Zenon, <2>1, <2>2
<1>5. UNCHANGED <<current_timestamp, callback, store>>
  BY Zenon DEF PerformRead, broadcaster_vars
<1>6. Contents' = Contents
  BY Zenon, <1>5 DEF Contents, Coherent
<1> QED
  BY Zenon, <1>1, <1>2, <1>3, <1>4, <1>5, <1>6 DEF Log!PerformRead, Contents, Reading

(* A step of a read is a step of the log.                                  *)
LEMMA LogSomeRead ==
    ASSUME IInv, SomeRead
    PROVE  Log!Next
<1>1. Readable \in (SUBSET Servers) \ {{}} /\ {Primary} \in (SUBSET Servers) \ {{}}
      /\ MostUpToDate \subseteq Servers
  BY Zenon, BranchAssumption DEF Readable, MostUpToDate, IInv, PrimaryInv
<1>2. PICK readable \in (SUBSET Servers) \ {{}} : readable = Readable
  BY Zenon, <1>1
<1>3. ASSUME NEW s \in MostUpToDate PROVE {s} \in (SUBSET Servers) \ {{}}
  BY Zenon, <1>1
<1>4. ASSUME NEW mirrors \in (SUBSET Servers) \ {{}}, StartRead(mirrors) PROVE Log!Next
  BY Zenon, <1>4, LogStartRead DEF Log!Next
<1>5. ASSUME NEW s \in Servers, PerformRead(s) PROVE Log!Next
  BY Zenon, <1>5, LogPerformRead DEF Log!Next
<1> QED
  BY Zenon, <1>1, <1>2, <1>3, <1>4, <1>5 DEF SomeRead

(* A step of a dispatchee is a step of the log or none.                    *)
LEMMA LogSomeDispatchee ==
    ASSUME IInv, SomeDispatchee
    PROVE  Log!Next \/ UNCHANGED Log!vars
<1>1. ASSUME NEW s \in Servers, Deregister(s) \/ Disconnect(s)
      PROVE  Log!Next \/ UNCHANGED Log!vars
  <2>1. /\ s # Primary /\ read' = IF read # None /\ s \in read.from THEN None ELSE read
        /\ UNCHANGED <<current_timestamp, callback, store>>
    BY Zenon, <1>1 DEF Deregister, Disconnect, DestroyDispatchee, broadcaster_vars, IInv, PrimaryInv
  <2>2. CASE read # None /\ s \in read.from
    <3>1. Reading # None /\ Reading.from # {Primary} /\ Reading' = None
      BY Zenon, <2>1, <2>2, ReadingIsNone DEF IInv, Reading
    <3>2. Log!FailRead
      BY Zenon, <3>1, <2>1 DEF Log!FailRead, Reading, Coherent
    <3> QED
      BY Zenon, <3>2 DEF Log!Next
  <2>3. CASE ~(read # None /\ s \in read.from)
    BY Zenon, <2>1, <2>3, LogStutters
  <2> QED
    BY Zenon, <2>2, <2>3
<1>2. ASSUME NEW s \in Servers, OnCreate(s) \/ Upgrade(s) \/ DispatcheeDrained(s)
      PROVE  UNCHANGED Log!vars
  BY Zenon, <1>2, LogStutters DEF OnCreate, Upgrade, DispatcheeDrained, broadcaster_vars
<1> QED
  BY Zenon, <1>1, <1>2 DEF SomeDispatchee

(* A step of a listener is a step of the log or none.                      *)
LEMMA LogSomeListener ==
    ASSUME IInv, IInv', Build = "debug", SomeListener
    PROVE  Log!Next \/ UNCHANGED Log!vars
<1>1. ASSUME NEW s \in Servers, Log!Move(s) PROVE Log!Next
  BY Zenon, <1>1 DEF Log!Next
<1>2. ASSUME NEW s \in Servers, StartListener(s) \/ StartReplier(s) PROVE UNCHANGED Log!vars
  BY Zenon, <1>2, LogStutters DEF StartListener, StartReplier, broadcaster_vars
<1>3. ASSUME NEW s \in Servers, NEW r \in Servers, Introduce(s, r) PROVE UNCHANGED Log!vars
  BY SMTT(30), <1>3, LogStutters DEF Introduce, broadcaster_vars
<1>4. ASSUME NEW s \in Servers, NEW i \in OpsOf(s),
             \/ EnqueueWrite(s, i) \/ SkipWrite(s, i) \/ PerformEnqueuedWrite(s, i)
             \/ LocalWriteread(s, i) \/ MarkWriteDone(s, i)
      PROVE  UNCHANGED Log!vars
  BY Zenon, <1>4, LogStutters DEF EnqueueWrite, SkipWrite, PerformEnqueuedWrite, LocalWriteread,
     TakeWriteToken, MarkWriteDone, broadcaster_vars
<1>5. ASSUME NEW s \in Servers, NEW i \in OpsOf(s), ApplyWrite(s, i) PROVE Log!Move(s)
  <2>1. PICK t \in Timestamps : t = ops[s][i].ts
    BY Zenon, OpTypes DEF IInv
  <2>2. /\ store' = [store EXCEPT ![s] = [earliest |-> t, latest |-> t, data |-> store[s].data \cup {t}]]
        /\ UNCHANGED <<current_timestamp, callback, read>>
        /\ ops[s][i].ts = store[s].earliest + 1
    BY Zenon, <1>5, <2>1, OldestTokenIsNext DEF ApplyWrite, broadcaster_vars
  <2>3. store[s].earliest \in Nat
    BY Zenon, ListenerTypes DEF IInv
  <2>4. store'[s].earliest = t /\ \A r \in Servers \ {s} : store'[r] = store[r]
    BY SMTT(30), <2>2 DEF IInv, TypeOK
  <2>5. store[s].earliest <= store'[s].earliest
    BY SMTT(30), <2>1, <2>2, <2>3, <2>4
  <2> QED
    BY Zenon, <2>2, <2>4, <2>5, LogMoves
<1>6. ASSUME NEW s \in Servers, StartBackfill(s) \/ FinishBackfill(s) PROVE Log!Move(s)
  <2>1. s # Primary
    BY Zenon, <1>6 DEF StartBackfill, FinishBackfill, MayBackfill, IInv, PrimaryInv
  <2>2. (\A r \in Servers \ {s} : store'[r] = store[r]) /\ UNCHANGED <<current_timestamp, callback, read>>
    BY <1>6 DEF StartBackfill, FinishBackfill, broadcaster_vars, IInv, TypeOK
  <2> QED
    BY SMTT(30), <2>1, <2>2, LogMoves
<1>7. ASSUME NEW s \in Servers, BackfillerLost(s) \/ BroadcasterLost(s) \/ StopListener(s)
      PROVE  Log!Move(s)
  <2>1. s # Primary
    BY Zenon, <1>7 DEF BackfillerLost, BroadcasterLost, StopListener, IInv, PrimaryInv, Dispatchees
  <2>2. (\A r \in Servers \ {s} : store'[r] = store[r]) /\ UNCHANGED <<current_timestamp, callback, read>>
    BY <1>7 DEF BackfillerLost, BroadcasterLost, StopListener, ListenerGone, broadcaster_vars,
       IInv, TypeOK
  <2> QED
    BY Zenon, <2>1, <2>2, LogMoves
<1> QED
  BY <1>1, <1>2, <1>3, <1>4, <1>5, <1>6, <1>7 DEF SomeListener

-----------------------------------------------------------------------------
(* The timestamps that a replier has done, in order, have a greatest one.  *)
LOCAL INSTANCE WellFoundedInduction

(* A bounded set of numbers that is not empty has a greatest one.          *)
LEMMA GreatestOf ==
    ASSUME NEW D \in SUBSET Nat, D # {}, NEW bound \in Nat, \A d \in D : d <= bound
    PROVE  \E n \in D : \A m \in D : m <= n
<1> DEFINE T == {n \in Nat : \A d \in D : d <= n}
<1>1. PICK n \in T : \A m \in T : n <= m
  <2> DEFINE R == {ss \in Nat \X Nat : ss[1] < ss[2]}
  <2>1. IsWellFoundedOn(R, Nat)
    BY Zenon, NatLessThanWellFounded DEF OpToRel
  <2>2. T \in SUBSET Nat /\ bound \in T
    BY Zenon
  <2> HIDE DEF R, T
  <2>3. PICK n \in T : \A m \in T : ~(<<m, n>> \in R)
    BY Zenon, <2>1, <2>2, WFMin
  <2>4. ASSUME NEW m \in T PROVE n <= m
    <3>1. <<m, n>> \in Nat \X Nat /\ <<m, n>>[1] = m /\ <<m, n>>[2] = n
      BY Zenon, <2>2
    <3> QED
      BY <3>1, <2>2, <2>3 DEF R
  <2> QED
    BY Zenon, <2>4
<1>2. n \in D
  <2> SUFFICES ASSUME n \notin D PROVE FALSE
    BY Zenon
  <2>1. \A d \in D : d <= n - 1
    <3> TAKE d \in D
    <3>1. d <= n /\ d # n /\ d \in Nat /\ n \in Nat
      BY Zenon
    <3> QED
      BY ONLY <3>1
  <2>2. PICK d : d \in D
    BY Zenon
  <2>3. n - 1 \in Nat
    BY <2>1, <2>2
  <2>4. n - 1 \in T
    BY Zenon, <2>1, <2>3
  <2> QED
    BY <2>4, <1>1, <2>3
<1> QED
  BY Zenon, <1>2

(* MarkWriteDone keeps the inductive invariant.                            *)
LEMMA MarkWriteDoneKeeps ==
    ASSUME IInv, NEW s \in Servers, NEW i \in OpsOf(s), MarkWriteDone(s, i)
    PROVE  IInv'
<1> DEFINE after == [ops[s] EXCEPT ![i].st = "done"]
<1> DEFINE in_order == {j \in 1 .. Len(after) : \A k \in 1 .. j : after[k].st \in {"skipped", "done"}}
<1> DEFINE done == {after[j].ts : j \in in_order} \cup {listener[s].min}
<1>1. /\ Streaming(s) /\ ops[s][i].st = "applied"
      /\ ops' = [ops EXCEPT ![s][i].st = "done"] /\ ops' = [ops EXCEPT ![s] = after]
      /\ listener' = [listener EXCEPT ![s].min = CHOOSE t \in done : \A u \in done : u <= t]
      /\ UNCHANGED <<broadcaster_vars, dispatchee, latest_acked_write, upgrades, read, store, changes>>
  BY SMTT(30) DEF MarkWriteDone
<1>2. /\ OpChanges(s, i) /\ ops'[s][i].st = "done" /\ after = ops'[s]
  <2>1. ops'[s] = after
    BY Zenon, <1>1 DEF IInv, TypeOK
  <2> QED
    BY Zenon, <2>1, <1>1, MoveOn DEF IInv, OpStates
<1>3. PICK e \in Nat, end \in Nat, m \in Nat :
        e = store[s].earliest /\ end = listener[s].backfill_end /\ m = listener[s].min
  BY Zenon, ListenerTypes DEF IInv
<1>4. end <= e /\ m <= e /\ e <= MaxTimestamp /\ MaxTimestamp \in Nat
  BY SMTT(30), <1>1, <1>3, ListenerTypes, NumberTypes DEF IInv, ListenerInv
<1>5. ASSUME NEW j \in OpsOf(s)
      PROVE  /\ OpInv(s, ops[s][j])' /\ ops'[s][j].ts \in Nat
             /\ ops'[s][j].st \in {"skipped", "done"} => ops'[s][j].ts <= e
  <2>1. OpInv(s, ops[s][j]) /\ ops[s][j].ts \in Nat
    BY Zenon, <1>1, OpTypes DEF IInv, ListenerInv
  <2>2. /\ ops'[s][j].ts = ops[s][j].ts /\ ops'[s][j].kind = ops[s][j].kind
        /\ \/ ops'[s][j].st = ops[s][j].st
           \/ ops'[s][j].st = "done" /\ ops[s][j].st = "applied"
    BY <1>1, <1>2 DEF OpChanges
  <2>3. /\ listener'[s].backfill_end = listener[s].backfill_end
        /\ listener'[s].current = listener[s].current /\ store' = store
    BY SMTT(30), <1>1, RecordTypes DEF IInv, ListenerRecords
  <2>4. OpInv(s, ops[s][j])'
    BY SMTT(30), <2>1, <2>2, <2>3 DEF OpInv
  <2>5. ops'[s][j].ts <= end => ops'[s][j].ts <= e
    BY SMTT(30), <2>1, <2>2, <1>3, <1>4
  <2> QED
    BY <2>1, <2>2, <2>3, <2>4, <2>5, <1>3 DEF OpInv
<1>6. PICK D : D = done
  BY Zenon
<1>7. D \in SUBSET Nat /\ D # {} /\ \A d \in D : d <= e
  <2>1. \A j \in in_order : j \in OpsOf(s) /\ after[j].st \in {"skipped", "done"}
    <3> SUFFICES ASSUME NEW j \in 1 .. Len(after), \A k \in 1 .. j : after[k].st \in {"skipped", "done"}
                 PROVE  j \in OpsOf(s) /\ after[j].st \in {"skipped", "done"}
      BY Zenon
    <3>1. Len(after) = Len(ops[s]) /\ Len(ops[s]) \in Nat
      BY Zenon, <1>2, OpTypes DEF IInv, OpChanges
    <3>2. j \in 1 .. j
      BY <3>1
    <3> QED
      BY Zenon, <3>1, <3>2 DEF OpsOf
  <2>2. \A j \in in_order : after[j].ts \in Nat /\ after[j].ts <= e
    BY Zenon, <2>1, <1>2, <1>5
  <2> HIDE DEF after, in_order
  <2> QED
    BY <2>2, <1>3, <1>4, <1>6
<1>8. PICK new \in D : \A d \in D : d <= new
  BY Zenon, <1>7, GreatestOf
<1> HIDE DEF done
<1>9. PICK min \in Versions : min <= e /\ listener' = [listener EXCEPT ![s] = [listener[s] EXCEPT !.min = min]]
  <2>1. (CHOOSE t \in done : \A u \in done : u <= t) \in D
    BY Zenon, <1>6, <1>8
  <2>2. PICK min \in D : min = CHOOSE t \in done : \A u \in done : u <= t
    BY Zenon, <2>1
  <2>3. min <= e /\ min \in Nat
    BY Zenon, <1>7
  <2>4. min \in Versions
    BY <2>3, <1>4 DEF Versions
  <2> QED
    BY Zenon, <2>2, <2>3, <2>4, <1>1
<1>10. /\ listener' \in [Servers -> ListenerRecords]
       /\ listener'[s].stage = listener[s].stage /\ listener'[s].begin = listener[s].begin
       /\ listener'[s].from = listener[s].from /\ listener'[s].backfill_end = listener[s].backfill_end
       /\ listener'[s].snapshot = listener[s].snapshot
       /\ listener'[s].current = listener[s].current /\ listener'[s].min = min
       /\ \A r \in Servers \ {s} : listener'[r] = listener[r]
  BY Zenon, <1>9, RecordTypes DEF IInv, ListenerRecords
<1>11. SanityCheck' /\ DispatcheeInv' /\ StreamInv' /\ AnswersInv' /\ ReadInv' /\ PrimaryInv'
  <2>1. MovesOp(s, i, "done")
    BY Zenon, <1>1, <1>10 DEF MovesOp
  <2>2. "done" \in OpStates
    BY Zenon DEF OpStates
  <2> QED
    BY <2>1, <2>2, MoveFrame
<1>12. TypeOK'
  BY <1>1, <1>2, <1>10 DEF IInv, TypeOK, OpChanges, ListenerRecords, broadcaster_vars
<1>13. StoreInv'
  <2>1. \A r \in Servers : /\ listener'[r].stage = listener[r].stage
                           /\ listener'[r].begin = listener[r].begin
                           /\ listener'[r].snapshot = listener[r].snapshot
    BY SMTT(30), <1>10
  <2> QED
    BY <2>1, <1>1 DEF IInv, StoreInv, StoreIsPrefix, broadcaster_vars
<1>14. ListenerInv'
  <2>1. ASSUME NEW r \in Servers, Streaming(r), NEW j \in OpsOf(r) PROVE OpInv(r, ops[r][j])'
    <3>1. CASE r = s
      BY <3>1, <1>5
    <3>2. CASE r # s
      <4>1. OpInv(r, ops[r][j]) /\ ops'[r][j] = ops[r][j]
        BY <3>2, <2>1, <1>2 DEF IInv, ListenerInv, OpChanges
      <4> QED
        BY <3>2, <4>1, <1>1, <1>10 DEF OpInv
    <3> QED
      BY Zenon, <3>1, <3>2
  <2>2. ASSUME NEW r \in Servers, Streaming(r)
        PROVE  /\ listener'[r].min <= store[r].earliest
               /\ listener'[r].begin = listener[r].begin
               /\ listener'[r].backfill_end = listener[r].backfill_end
               /\ listener'[r].current = listener[r].current
    <3>1. CASE r = s
      BY SMTT(30), <3>1, <1>3, <1>9, <1>10
    <3>2. CASE r # s
      BY <3>2, <2>2, <1>10 DEF IInv, ListenerInv
    <3> QED
      BY Zenon, <3>1, <3>2
  <2>3. \A r \in Servers : OpsOf(r)' = OpsOf(r) /\ Len(ops'[r]) = Len(ops[r])
    BY Zenon, <1>2 DEF OpChanges
  <2>4. current_timestamp' = current_timestamp /\ store' = store
        /\ \A r \in Servers : Streaming(r)' <=> Streaming(r)
    BY Zenon, <1>1, <1>10 DEF Streaming, broadcaster_vars
  <2> QED
    BY Zenon, <2>1, <2>2, <2>3, <2>4 DEF IInv, ListenerInv
<1> QED
  BY Zenon, <1>11, <1>12, <1>13, <1>14 DEF IInv

(* Every step keeps the inductive invariant.                               *)
LEMMA StepIInv ==
    ASSUME Build = "debug", IInv, [Next]_vars
    PROVE  IInv'
<1>1. CASE SomeWrite
  BY <1>1, SpawnWriteKeeps, DropCallbackKeeps, BackgroundWriteKeeps, BackgroundWritereadKeeps
     DEF SomeWrite
<1>2. CASE SomeRead
  <2>1. {Primary} \in SUBSET Servers /\ Readable \in SUBSET Servers /\ MostUpToDate \subseteq Servers
    BY Zenon, BranchAssumption DEF Readable, MostUpToDate
  <2>2. CASE StartRead({Primary})
    BY <2>1, <2>2, StartReadKeeps
  <2>3. CASE StartRead(Readable)
    <3>1. PICK mirrors \in SUBSET Servers : mirrors = Readable
      BY Zenon, <2>1
    <3> QED
      BY <2>3, <3>1, StartReadKeeps
  <2>4. ASSUME NEW s \in MostUpToDate, StartRead({s}) PROVE IInv'
    <3>1. {s} \in SUBSET Servers
      BY Zenon, <2>1
    <3> QED
      BY <2>4, <3>1, StartReadKeeps
  <2> QED
    BY Zenon, <1>2, <2>2, <2>3, <2>4, PerformReadKeeps DEF SomeRead
<1>3. CASE SomeDispatchee
  BY SMTT(30), <1>3, OnCreateKeeps, UpgradeKeeps, DestroyDispatcheeKeeps, DispatcheeDrainedKeeps
     DEF SomeDispatchee
<1>4. CASE SomeListener
  BY SMTT(30), <1>4, StartListenerKeeps, StartBackfillKeeps, FinishBackfillKeeps, StartReplierKeeps,
     LeavingKeeps, IntroduceKeeps, EnqueueWriteKeeps, SkipWriteKeeps, TakeWriteTokenKeeps,
     ApplyWriteKeeps, MarkWriteDoneKeeps
     DEF SomeListener
<1>5. CASE UNCHANGED vars
  <2>1. SameStages /\ SameOps /\ NoneStarts
    BY <1>5 DEF SameStages, SameOps, NoneStarts, OpsOf, vars
  <2>2. TypeOK' /\ SanityCheck' /\ ReadInv'
    BY <1>5 DEF IInv, TypeOK, SanityCheck, ReadInv, vars, broadcaster_vars
  <2> QED
    BY SMTT(30), <2>1, <2>2, <1>5, DispatcheeFrame, StreamFrame, ListenerFrame, StoreFrame, PrimaryFrame,
       AnswersFrame DEF IInv, vars, broadcaster_vars
<1> QED
  BY <1>1, <1>2, <1>3, <1>4, <1>5 DEF Next

(***************************************************************************)
(* Whatever listeners join, stop, crash and are backfilled, in whatever    *)
(* order messages come: each mirror is sent each write after its beginning *)
(* once and in order, a write gets its token exactly when the listener is  *)
(* at the timestamp before it, each store is a prefix of the log, clients  *)
(* are told what the acks say, and a read sees every write acked before    *)
(* it.  For any number of servers, writes, changes and any ack checker.    *)
(* The build that aborts a backfiller behind its backfillee is the one     *)
(* this holds of.                                                          *)
(***************************************************************************)
THEOREM BranchIsRight ==
    ASSUME Build = "debug"
    PROVE  Spec => []BranchInv
<1>1. IInv /\ [Next]_vars => IInv'
  BY Zenon, StepIInv
<1> QED
  BY <1>1, InitIInv, IInvIsEnough, PTL DEF Spec

(***************************************************************************)
(* Clients cannot tell a branch, with the broadcaster, the listeners and   *)
(* repliers and their messages, from one log of which every replica holds  *)
(* a prefix: each step maps to a step of ReplicatedLog or to none.         *)
(***************************************************************************)
THEOREM BranchImplementsLog ==
    ASSUME Build = "debug"
    PROVE  Spec => ImplementsLog
<1>1. IInv /\ [Next]_vars => IInv'
  BY Zenon, StepIInv
<1>2. IInv /\ IInv' /\ [Next]_vars => [Log!Next]_(Log!vars)
  <2> SUFFICES ASSUME IInv, IInv', [Next]_vars PROVE Log!Next \/ UNCHANGED Log!vars
    BY Zenon
  <2>1. CASE UNCHANGED vars
    BY Zenon, <2>1, LogStutters DEF vars, broadcaster_vars
  <2> QED
    BY <2>1, LogSomeWrite, LogSomeRead, LogSomeDispatchee, LogSomeListener DEF Next
<1> QED
  BY <1>1, <1>2, InitIInv, LogInit, PTL DEF Spec, ImplementsLog, Log!Spec
=============================================================================
