------------------------------ MODULE Semilattice ------------------------------
(***************************************************************************)
(* rpc/semilattice: the cluster's metadata, of which every server has a    *)
(* copy that it joins with what others send it (semilattice_manager.tcc),  *)
(* and the joins of joins/map.hpp, deletable.tcc and versioned.hpp.        *)
(*                                                                         *)
(* Metadata maps keys to deletable_t<versioned_t>s.  A versioned_t has the *)
(* time of the clock of the server where it was set and a random           *)
(* tiebreaker, which stands for its value too.  The metadata that is on its*)
(* way from one server to another is a sequence; a sync is at most one at a*)
(* time and its messages travel apart, for they may overtake the metadata. *)
(***************************************************************************)
EXTENDS Naturals, FiniteSets, Queues

CONSTANTS SlServers, SlKeys,
          SlClock,      \* what each server's clock shows
          SlMaxSets,    \* bound: values set
          SlMaxDeletes, \* bound: keys deleted
          SlMaxLosses   \* bound: connections lost

ASSUME SlAssumption ==
    /\ SlClock \in [SlServers -> Nat]
    /\ SlMaxSets \in Nat /\ SlMaxDeletes \in Nat /\ SlMaxLosses \in Nat

VARIABLES
    slMeta,     \* the metadata of each server
    slVersion,  \* its metadata_version
    slOwn,      \* what was joined at the server itself, up to now
    slUp,       \* the pairs of servers that are connected
    slKnown,    \* last_connections of each server
    slData,     \* metadata on its way
    slSeen,     \* last_versions_seen plus one, 0 where there is no entry
    slSync,     \* the sync_from() or sync_to() that is under way
    slOrdered,  \* whether what spawn_sometime() starts runs in order
    slCount     \* the tiebreakers used, and how many deletions and losses were

slVars == <<slMeta, slVersion, slOwn, slUp, slKnown, slData, slSeen, slSync, slOrdered, slCount>>

Absent == [kind |-> "absent", ts |-> 0, tag |-> 0]
Deleted == [kind |-> "deleted", ts |-> 0, tag |-> 0]
NoMetadata == [k \in SlKeys |-> Absent]
Pairs == {pair \in SUBSET SlServers : Cardinality(pair) = 2}
NoSync == [st |-> "none"]

SlInit ==
    /\ slMeta = [s \in SlServers |-> NoMetadata] /\ slOwn = slMeta
    /\ slVersion = [s \in SlServers |-> 0]
    /\ slUp = {} /\ slKnown = [s \in SlServers |-> {}]
    /\ slData = [s \in SlServers |-> [q \in SlServers |-> <<>>]]
    /\ slSeen = [s \in SlServers |-> [q \in SlServers |-> 0]]
    /\ slSync = NoSync
    /\ slOrdered \in BOOLEAN
    /\ slCount = [tags |-> {}, deletes |-> 0, losses |-> 0]

--------------------------------------------------------------------------------
(* The joins                                                               *)

VersionedJoin(a, b) ==
    IF a.ts < b.ts \/ (a.ts = b.ts /\ a.tag < b.tag) THEN b ELSE a

(* Mutant: what is deleted comes back when somebody sends it again.        *)
DeletableJoinMutant(a, b) ==
    IF b = Deleted \/ a = Deleted THEN b ELSE VersionedJoin(a, b)

DeletableJoin(a, b) ==
    IF b = Deleted THEN b ELSE IF a = Deleted THEN a ELSE VersionedJoin(a, b)

MapJoin(a, b) ==
    [k \in SlKeys |-> IF b[k] = Absent THEN a[k]
                      ELSE IF a[k] = Absent THEN b[k]
                      ELSE DeletableJoin(a[k], b[k])]

(* a is in b: joining it changes nothing.                                  *)
IsIn(a, b) == MapJoin(b, a) = b

--------------------------------------------------------------------------------
(* The manager                                                             *)

Send(data, s, q, md, v) ==
    IF {s, q} \in slUp THEN [data EXCEPT ![s][q] = Append(@, [md |-> md, v |-> v])] ELSE data

\* root_view_t::join(): the change goes to all of last_connections
RootViewJoin(s, md) ==
    /\ slVersion' = [slVersion EXCEPT ![s] = @ + 1]
    /\ slMeta' = [slMeta EXCEPT ![s] = MapJoin(@, md)]
    /\ slOwn' = [slOwn EXCEPT ![s] = MapJoin(@, md)]
    /\ slData' = [slData EXCEPT ![s] = [q \in SlServers |->
                    IF q \in slKnown[s] /\ {s, q} \in slUp
                    THEN Append(@[q], [md |-> md, v |-> slVersion'[s]]) ELSE @[q]]]
    /\ UNCHANGED <<slUp, slKnown, slSeen, slSync, slOrdered>>

Max2(m, n) == IF m > n THEN m ELSE n

\* versioned_t::on_change(); a key that is new starts from the least timestamp
OnChange(s, k) ==
    IF slMeta[s][k] = Absent THEN SlClock[s] ELSE Max2(slMeta[s][k].ts + 1, SlClock[s])

\* The user sets a value: set() or apply_write() on a copy, and join() of it
SetValue(s, k, tag) ==
    /\ slMeta[s][k] # Deleted /\ tag \notin slCount.tags
    /\ slCount' = [slCount EXCEPT !.tags = @ \cup {tag}]
    /\ RootViewJoin(s, [NoMetadata EXCEPT ![k] =
                           [kind |-> "value", ts |-> OnChange(s, k), tag |-> tag]])

\* The user deletes the key: mark_deleted() and join()
DeleteKey(s, k) ==
    /\ slMeta[s][k].kind = "value" /\ slCount.deletes < SlMaxDeletes
    /\ slCount' = [slCount EXCEPT !.deletes = @ + 1]
    /\ RootViewJoin(s, [NoMetadata EXCEPT ![k] = Deleted])

\* on_connection_change(), with the coroutine that sends all of the metadata
ManagerConnectionChange(s, q) ==
    /\ {s, q} \in slUp /\ q \notin slKnown[s] /\ s # q
    /\ slKnown' = [slKnown EXCEPT ![s] = @ \cup {q}]
    /\ slData' = Send(slData, s, q, slMeta[s], slVersion[s])
    /\ UNCHANGED <<slMeta, slVersion, slOwn, slUp, slSeen, slSync, slOrdered, slCount>>

\* on_message() for the i-th of the metadata on its way from s to q
(* Mutant: news that is known already is ignored altogether                *)
OnMetadataMutant(s, q, i) ==
    /\ i \in DOMAIN slData[s][q] /\ (slOrdered => i = 1)
    /\ slMeta' = [slMeta EXCEPT ![q] = MapJoin(@, slData[s][q][i].md)]
    /\ slSeen' = [slSeen EXCEPT ![q][s] = IF IsIn(slData[s][q][i].md, slMeta[q]) THEN @ ELSE Max2(@, slData[s][q][i].v + 1)]
    /\ slData' = [slData EXCEPT ![s][q] = DropAt(@, i)]
    /\ UNCHANGED <<slVersion, slOwn, slUp, slKnown, slSync, slOrdered, slCount>>

OnMetadata(s, q, i) ==
    /\ i \in DOMAIN slData[s][q] /\ (slOrdered => i = 1)
    /\ slMeta' = [slMeta EXCEPT ![q] = MapJoin(@, slData[s][q][i].md)]
    /\ slSeen' = [slSeen EXCEPT ![q][s] = Max2(@, slData[s][q][i].v + 1)]
    /\ slData' = [slData EXCEPT ![s][q] = DropAt(@, i)]
    /\ UNCHANGED <<slVersion, slOwn, slUp, slKnown, slSync, slOrdered, slCount>>

--------------------------------------------------------------------------------
(* sync_from() and sync_to(): s waits until q's, or its own, changes have  *)
(* reached s, or q.  `must' is what has to be there when it returns; it    *)
(* throws sync_failed_exc_t when the connection is lost.                   *)

SyncStep(st) ==
    /\ slSync' = [slSync EXCEPT !.st = st]
    /\ UNCHANGED <<slMeta, slVersion, slOwn, slUp, slKnown, slData, slSeen, slOrdered, slCount>>

SyncFrom(s, q) ==
    /\ slSync = NoSync /\ {s, q} \in slUp
    /\ slSync' = [st |-> "query", at |-> s, of |-> q, must |-> slOwn[q], v |-> 0]
    /\ UNCHANGED <<slMeta, slVersion, slOwn, slUp, slKnown, slData, slSeen, slOrdered, slCount>>

\* The peer answers with its metadata_version
SyncFromQuery ==
    /\ slSync.st = "query"
    /\ slSync' = [slSync EXCEPT !.st = "wait", !.v = slVersion[slSync.of]]
    /\ UNCHANGED <<slMeta, slVersion, slOwn, slUp, slKnown, slData, slSeen, slOrdered, slCount>>

\* The version goes with the query, and the peer waits for it before it answers
SyncTo(s, q) ==
    /\ slSync = NoSync /\ {s, q} \in slUp
    /\ slSync' = [st |-> "wait", at |-> q, of |-> s, must |-> slOwn[s], v |-> slVersion[s]]
    /\ UNCHANGED <<slMeta, slVersion, slOwn, slUp, slKnown, slData, slSeen, slOrdered, slCount>>

\* wait_for_version_from_peer(); where there is no entry it waits for the first message
WaitForVersion ==
    /\ slSync.st = "wait"
    /\ slSeen[slSync.at][slSync.of] > slSync.v
    /\ SyncStep("done")

--------------------------------------------------------------------------------
Connect(pair) ==
    /\ pair \in Pairs \ slUp /\ \A s \in pair : slKnown[s] \cap pair = {}
    /\ slUp' = slUp \cup {pair}
    /\ UNCHANGED <<slMeta, slVersion, slOwn, slKnown, slData, slSeen, slSync, slOrdered, slCount>>

\* What is on its way is lost, last_connections change, and a sync over it fails
Disconnect(pair) ==
    /\ pair \in slUp /\ slCount.losses < SlMaxLosses
    /\ slUp' = slUp \ {pair}
    /\ slData' = [s \in SlServers |-> [q \in SlServers |-> IF {s, q} = pair THEN <<>> ELSE slData[s][q]]]
    /\ slKnown' = [s \in SlServers |-> IF s \in pair THEN slKnown[s] \ pair ELSE slKnown[s]]
    /\ slSync' = IF slSync.st \in {"query", "wait"} /\ {slSync.at, slSync.of} = pair
                 THEN [slSync EXCEPT !.st = "failed"] ELSE slSync
    /\ slCount' = [slCount EXCEPT !.losses = @ + 1]
    /\ UNCHANGED <<slMeta, slVersion, slOwn, slSeen, slOrdered>>

SlNext ==
    \/ \E s \in SlServers, k \in SlKeys :
         DeleteKey(s, k) \/ \E tag \in 1 .. SlMaxSets : SetValue(s, k, tag)
    \/ \E s, q \in SlServers :
         \/ ManagerConnectionChange(s, q)
         \/ \E i \in DOMAIN slData[s][q] : OnMetadata(s, q, i)
         \/ s # q /\ (SyncFrom(s, q) \/ SyncTo(s, q))
    \/ SyncFromQuery \/ WaitForVersion
    \/ \E pair \in Pairs : Connect(pair) \/ Disconnect(pair)

SlSpec == SlInit /\ [][SlNext]_slVars

--------------------------------------------------------------------------------
(* Every value set takes effect where it is set, whatever the clocks of the*)
(* servers show and whatever was set before: it is not lost in the join.   *)
SetsTakeEffect ==
    [][\A tag \in slCount'.tags \ slCount.tags :
         \E s \in SlServers, k \in SlKeys : slMeta'[s][k].tag = tag]_slVars

(* A server never goes back to a value that was overridden where it was    *)
(* known, and what is deleted stays deleted.                               *)
MetadataOnlyGrows == [][\A s \in SlServers : IsIn(slMeta[s], slMeta'[s])]_slVars

(* The servers that have something to tell or somebody to tell it to.      *)
Active == {s \in SlServers : slMeta[s] # NoMetadata \/ slKnown[s] # {}}

(* When every two of them are connected and nothing is on its way they all *)
(* have the same metadata, in whatever order it came and whichever         *)
(* connections were lost meanwhile.                                        *)
MetadataConverges ==
    (\A s, q \in Active : s # q => q \in slKnown[s] /\ slData[s][q] = <<>>) =>
        \A s, q \in Active : slMeta[s] = slMeta[q]

(* When sync_from() or sync_to() has returned the changes made by then at  *)
(* the one server are known to the other: if the messages that carry them  *)
(* are handled in the order in which they were sent.                       *)
SyncsTellTheTruth ==
    (slOrdered /\ slSync.st = "done") => IsIn(slSync.must, slMeta[slSync.at])

(* No sync waits when all the metadata has arrived.                        *)
SyncsReturn ==
    slSync.st = "wait" =>
        \/ slSync.of \notin slKnown[slSync.at] \/ slSync.at \notin slKnown[slSync.of]
        \/ slData[slSync.of][slSync.at] # <<>>
        \/ slSeen[slSync.at][slSync.of] > slSync.v

\* Metadata is right at all times: servers that have exchanged all messages
\* agree, a sync that returned has brought what it promised, and none waits for
\* what will not come.
SlInv == MetadataConverges /\ SyncsTellTheTruth /\ SyncsReturn

\* No step takes metadata back, and a value that is set replaces the one that
\* it was set over.
SlSteps == SetsTakeEffect /\ MetadataOnlyGrows
================================================================================
