----------------------------- MODULE DirectoryMap ------------------------------
(***************************************************************************)
(* rpc/directory/map_write_manager.tcc and map_read_manager.tcc: how the   *)
(* keys of one server's map reach another.  The writer notes which keys are*)
(* dirty and streams their newest values; the reader keeps the newest      *)
(* timestamp of each key, and the coroutine of the first update of a       *)
(* connection stays to clean up.  A value is the timestamp at which it was *)
(* set; a key without a value has 0.                                       *)
(***************************************************************************)
EXTENDS Naturals, FiniteSets

CONSTANTS DmKeys,
          DmMaxConns,   \* bound: connections from the writer to the reader
          DmMaxChanges  \* bound: changes of the writer's map

ASSUME DmAssumption == DmMaxConns \in Nat \ {0} /\ DmMaxChanges \in Nat

VARIABLES
    dmConn,       \* the connection: its number and its state
    dmValue, dmTimestamp,   \* the writer's map and its timestamp
    dmStream,     \* stream_to_conn(): the connection of conns_entry, its dirty_keys,
                  \* and the keys it has copied and not sent yet
    dmNet,        \* messages sent whose do_update() is not on the home thread yet
    dmTimestamps, \* the reader's timestamps for the peer; while it exists there is
                  \* the coroutine that will clean up
    dmMap         \* the reader's map_var

dmVars == <<dmConn, dmValue, dmTimestamp, dmStream, dmNet, dmTimestamps, dmMap>>

NoValues == [k \in DmKeys |-> 0]
NoTimestamps == [exists |-> FALSE, of |-> NoValues]
DmTimes == 0 .. DmMaxChanges

DmTypeOK ==
    /\ dmConn \in [n : 1 .. DmMaxConns, st : {"up", "closing", "down"}]
    /\ dmValue \in [DmKeys -> DmTimes] /\ dmTimestamp \in DmTimes
    /\ dmStream \in [conn : 0 .. DmMaxConns, dirty : SUBSET DmKeys, batch : SUBSET DmKeys]
    /\ dmNet \subseteq [ts : DmTimes, key : DmKeys, val : DmTimes]
    /\ dmTimestamps \in [exists : BOOLEAN, of : [DmKeys -> DmTimes]]
    /\ dmMap \in [DmKeys -> DmTimes]

DmInit ==
    /\ dmConn = [n |-> 1, st |-> "up"]
    /\ dmValue = NoValues /\ dmTimestamp = 0
    /\ dmStream = [conn |-> 0, dirty |-> {}, batch |-> {}]
    /\ dmNet = {} /\ dmTimestamps = NoTimestamps /\ dmMap = NoValues

--------------------------------------------------------------------------------
(* The writer                                                              *)

\* value_subs: a key is set or deleted.  Before the first connection there is no
\* entry to note it in, and MapOnConnectionChange starts one anew.
KeyChanges(k, v) ==
    /\ dmTimestamp < DmMaxChanges /\ v # dmValue[k]
    /\ dmTimestamp' = dmTimestamp + 1
    /\ dmValue' = [dmValue EXCEPT ![k] = v]
    /\ dmStream' = [dmStream EXCEPT !.dirty = @ \cup {k}]
    /\ UNCHANGED <<dmConn, dmNet, dmTimestamps, dmMap>>

\* The coroutine of the old connection is gone; the new one has every key dirty
MapOnConnectionChange ==
    /\ dmConn.st = "up" /\ dmStream.conn # dmConn.n
    /\ dmStream' = [conn |-> dmConn.n, dirty |-> {k \in DmKeys : dmValue[k] # 0}, batch |-> {}]
    /\ UNCHANGED <<dmConn, dmValue, dmTimestamp, dmNet, dmTimestamps, dmMap>>

Streaming == dmConn.st = "up" /\ dmStream.conn = dmConn.n

CopyDirtyKeys ==
    /\ Streaming /\ dmStream.batch = {} /\ dmStream.dirty # {}
    /\ dmStream' = [dmStream EXCEPT !.batch = dmStream.dirty, !.dirty = {}]
    /\ UNCHANGED <<dmConn, dmValue, dmTimestamp, dmNet, dmTimestamps, dmMap>>

SendKey(k) ==
    /\ Streaming /\ k \in dmStream.batch
    /\ dmStream' = [dmStream EXCEPT !.batch = @ \ {k}, !.dirty = @ \ {k}]
    /\ dmNet' = dmNet \cup {[ts |-> dmTimestamp, key |-> k, val |-> dmValue[k]]}
    /\ UNCHANGED <<dmConn, dmValue, dmTimestamp, dmTimestamps, dmMap>>

--------------------------------------------------------------------------------
(* The reader                                                              *)

(* Mutant: compares with the value, not with the timestamp                 *)
DoUpdateMutant(m) ==
    /\ m \in dmNet
    /\ dmNet' = dmNet \ {m}
    /\ IF m.ts > dmMap[m.key]
       THEN /\ dmTimestamps' = [exists |-> TRUE, of |-> [dmTimestamps.of EXCEPT ![m.key] = m.ts]]
            /\ dmMap' = [dmMap EXCEPT ![m.key] = m.val]
       ELSE dmTimestamps' = [dmTimestamps EXCEPT !.exists = TRUE] /\ UNCHANGED dmMap
    /\ UNCHANGED <<dmConn, dmValue, dmTimestamp, dmStream>>

\* do_update() on the home thread.  A key in the map was sent at a timestamp > 0,
\* so 0 stands for a key that is not in timestamps.
DoUpdate(m) ==
    /\ m \in dmNet
    /\ dmNet' = dmNet \ {m}
    /\ IF m.ts > dmTimestamps.of[m.key]
       THEN /\ dmTimestamps' = [exists |-> TRUE, of |-> [dmTimestamps.of EXCEPT ![m.key] = m.ts]]
            /\ dmMap' = [dmMap EXCEPT ![m.key] = m.val]
       ELSE dmTimestamps' = [dmTimestamps EXCEPT !.exists = TRUE] /\ UNCHANGED dmMap
    /\ UNCHANGED <<dmConn, dmValue, dmTimestamp, dmStream>>

\* The rest of do_update() for the first update, once the connection is lost
CleanUp ==
    /\ dmConn.st = "closing" /\ dmTimestamps.exists
    /\ dmTimestamps' = NoTimestamps /\ dmMap' = NoValues
    /\ UNCHANGED <<dmConn, dmValue, dmTimestamp, dmStream, dmNet>>

--------------------------------------------------------------------------------
(* The connection                                                          *)

\* What was not received yet is lost
MapConnectionIsLost ==
    /\ dmConn.st = "up"
    /\ dmConn' = [dmConn EXCEPT !.st = "closing"]
    /\ \E received \in SUBSET dmNet : dmNet' = received
    /\ UNCHANGED <<dmValue, dmTimestamp, dmStream, dmTimestamps, dmMap>>

(* Mutant: do_update() holds no keepalive                                  *)
MapConnectionGoesAwayMutant ==
    /\ dmConn.st = "closing" /\ ~ dmTimestamps.exists
    /\ dmConn' = [dmConn EXCEPT !.st = "down"]
    /\ UNCHANGED <<dmValue, dmTimestamp, dmStream, dmNet, dmTimestamps, dmMap>>

\* ~connection_t() waits for every connection_keepalive
MapConnectionGoesAway ==
    /\ dmConn.st = "closing" /\ dmNet = {} /\ ~ dmTimestamps.exists
    /\ dmConn' = [dmConn EXCEPT !.st = "down"]
    /\ UNCHANGED <<dmValue, dmTimestamp, dmStream, dmNet, dmTimestamps, dmMap>>

MapNewConnection ==
    /\ dmConn.st = "down" /\ dmConn.n < DmMaxConns
    /\ dmConn' = [n |-> dmConn.n + 1, st |-> "up"]
    /\ UNCHANGED <<dmValue, dmTimestamp, dmStream, dmNet, dmTimestamps, dmMap>>

DmNext ==
    \/ \E k \in DmKeys : KeyChanges(k, dmTimestamp + 1) \/ KeyChanges(k, 0) \/ SendKey(k)
    \/ MapOnConnectionChange \/ CopyDirtyKeys
    \/ \E m \in dmNet : DoUpdate(m)
    \/ CleanUp \/ MapConnectionIsLost \/ MapConnectionGoesAway \/ MapNewConnection

DmSpec == DmInit /\ [][DmNext]_dmVars

--------------------------------------------------------------------------------
(* While a connection stands the reader never goes back to an older value  *)
(* of a key, nor brings a deleted one back to life.                        *)
KeysNeverGoBack ==
    [][\A k \in DmKeys :
         (dmConn.st = "up" /\ dmMap'[k] # dmMap[k]) => dmTimestamps'.of[k] > dmTimestamps.of[k]]_dmVars

(* No key of a server is left in the map when the connection to it is gone,*)
(* even if an update came after the clean-up.                              *)
KeysMeanConnected == dmConn.st = "down" => dmMap = NoValues /\ ~ dmTimestamps.exists

(* When nothing is dirty or on its way and the connection stands, the reader *)
(* has the writer's map: a key that changes while a copy of the dirty keys   *)
(* is being sent is not forgotten, and neither is one that is deleted.       *)
MapIsUpToDate ==
    (Streaming /\ dmStream.dirty = {} /\ dmStream.batch = {} /\ dmNet = {}) => dmMap = dmValue

\* The map is right at all times: keys are of a connected peer, and have their
\* newest values once messages have come to rest.
DmInv == DmTypeOK /\ KeysMeanConnected /\ MapIsUpToDate
================================================================================
