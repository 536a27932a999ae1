----------------------------- MODULE MCCluster -----------------------------
(***************************************************************************)
(* The modules of the cluster, each on a small cluster of its own.  They   *)
(* share no state: a behaviour is of the one that `scenario' names.        *)
(***************************************************************************)
EXTENDS Registrar, Directory, DirectoryMap, Connectivity, Heartbeat,
        Semilattice, Reactor, ChangeFeed, LimitFeed

VARIABLE scenario

clusterVars == <<scenario, rgVars, dyVars, dmVars, cnVars, hbVars, slVars, rcVars, cfVars,
                 lfVars>>

(* The clock of the third server is ahead.                                 *)
Clocks == [s \in SlServers |-> IF s = 3 THEN 2 ELSE 1]

(* Every blueprint of two servers, and some of three.                      *)
Blueprints == LET P == "primary"
                  S == "secondary"
                  N == "nothing"
              IN  {<<P, S>>, <<P, N>>, <<S, P>>, <<N, P>>,
                   <<P, S, N>>, <<N, S, P>>, <<S, N, P>>}

(* Of the subscriptions to rows: one to a row and one to a range, on two   *)
(* feeds; and one alone, with a fault and a write, with two writes that it *)
(* squashes, or with more writes than the queue takes.                     *)
SubscriptionSets ==
    LET Sub(keys, point, squash) == [keys |-> keys, point |-> point, squash |-> squash]
        absent == Sub({}, FALSE, FALSE)
        all(a, b, writes, faults, feeds) ==
            [subs |-> [u \in CfSubs |-> IF u = 1 THEN a ELSE b],
             writes |-> writes, faults |-> faults, feeds |-> feeds]
    IN  {all(Sub({1}, TRUE, FALSE), Sub({1, 2}, FALSE, FALSE), 0, 0, 2),
         all(Sub({1}, TRUE, TRUE), absent, 2, 0, 1),
         all(Sub({1, 2}, FALSE, TRUE), absent, 2, 0, 1),
         all(Sub({1}, TRUE, FALSE), absent, 1, 1, 1),
         all(Sub({1, 2}, FALSE, FALSE), absent, 1, 1, 1),
         all(Sub({1, 2}, FALSE, FALSE), absent, 3, 0, 1),
         all(absent, absent, 0, 0, 0)}
FeedServerOf == [k \in CfKeys |-> k]

(* Of those to the first items: the stores have three items and one.       *)
ItemStoreOf == [i \in 1..4 |-> IF i <= 3 THEN 1 ELSE 2]
LimitKinds ==
    LET Kind(primary, squash, writes, table) ==
            [primary |-> primary, squash |-> squash, writes |-> writes, table |-> table]
    IN  {Kind(FALSE, FALSE, 2, <<1, 2, 2, 1>>), Kind(FALSE, TRUE, 2, <<1, 1, 0, 2>>),
         Kind(TRUE, FALSE, 3, <<1, 1, 1, 1>>), Kind(TRUE, TRUE, 3, <<1, 1, 1, 1>>)}

ClusterInit ==
    /\ scenario \in {"registrar", "directory", "directory_map", "connectivity", "heartbeat",
                     "metadata_two", "metadata_three", "reactors", "changefeeds", "limit_feeds"}
    /\ RgInit /\ DyInit /\ DmInit /\ CnInit /\ HbInit /\ SlInit /\ RcInit /\ CfInit /\ LfInit
    /\ scenario = "changefeeds" <=> \E u \in CfSubs : cfSpec[u].keys # {}
    /\ scenario # "limit_feeds" => lfKind.primary /\ lfKind.squash
    /\ rcBp[1][1] = "primary"
    /\ scenario # "reactors" => rcBp[1] = <<"primary", "nothing">>
    /\ scenario \notin {"metadata_two"} => ~slOrdered

(* Two servers that may each try two addresses at the same time and lose   *)
(* connections, or three servers and three connections.                    *)
ConnectivityStep ==
    \/ \A s, q \in CnServers : cnAttempt'[s][q].on => {s, q} = {1, 2}
    \/ cnFaults' = 0 /\ Len(cnTcp') <= 3

(* At most three changes and losses; either two servers, which may also    *)
(* ask each other for a sync, or three that have met before the first      *)
(* change and are connected whenever a value is set.                       *)
FewEvents == Cardinality(slCount'.tags) + slCount'.deletes + slCount'.losses <= 3

TwoServersStep == slUp' \subseteq {{1, 2}} /\ slSync.st \notin {"done", "failed"} /\ FewEvents

HaveMet == \A s, q \in SlServers : s = q \/ (q \in slKnown[s] /\ slData[s][q] = <<>>)

ThreeServersStep ==
    /\ slSync' = NoSync /\ FewEvents
    /\ (slCount.tags = {} /\ slCount' # slCount) => HaveMet
    /\ slCount'.tags # slCount.tags => slUp = Pairs

(* Two servers: two blueprint changes or faults, or three changes between  *)
(* the blueprints that exchange the primary and the secondary.  Three      *)
(* servers: one change or fault.                                           *)
ReactorsStep ==
    LET events == rcCount'.changes + rcCount'.faults
    IN  \/ Len(rcBp[1]) = 2 /\ events <= 2
        \/ /\ rcCount'.faults = 0
           /\ \A s \in {1, 2} : rcBp'[s] \in {<<"primary", "secondary">>,
                                              <<"secondary", "primary">>}
        \/ events <= 1 /\ \A s \in RcServers : Len(rcLog'[s]) <= 2

In(name, step, others) == scenario = name /\ step /\ UNCHANGED <<scenario, others>>

ClusterNext ==
    \/ In("registrar", RgNext, <<dyVars, dmVars, cnVars, hbVars, slVars, rcVars, cfVars, lfVars>>)
    \/ In("directory", DyNext, <<rgVars, dmVars, cnVars, hbVars, slVars, rcVars, cfVars, lfVars>>)
    \/ In("directory_map", DmNext, <<rgVars, dyVars, cnVars, hbVars, slVars, rcVars, cfVars, lfVars>>)
    \/ In("connectivity", CnNext /\ ConnectivityStep,
          <<rgVars, dyVars, dmVars, hbVars, slVars, rcVars, cfVars, lfVars>>)
    \/ In("heartbeat", HbNext, <<rgVars, dyVars, dmVars, cnVars, slVars, rcVars, cfVars, lfVars>>)
    \/ In("metadata_two", SlNext /\ TwoServersStep,
          <<rgVars, dyVars, dmVars, cnVars, hbVars, rcVars, cfVars, lfVars>>)
    \/ In("metadata_three", SlNext /\ ThreeServersStep,
          <<rgVars, dyVars, dmVars, cnVars, hbVars, rcVars, cfVars, lfVars>>)
    \/ In("reactors", RcNext /\ ReactorsStep,
          <<rgVars, dyVars, dmVars, cnVars, hbVars, slVars, cfVars, lfVars>>)
    \/ In("changefeeds", CfNext, <<rgVars, dyVars, dmVars, cnVars, hbVars, slVars, rcVars, lfVars>>)
    \/ In("limit_feeds", LfNext, <<rgVars, dyVars, dmVars, cnVars, hbVars, slVars, rcVars, cfVars>>)

ClusterSpec == ClusterInit /\ [][ClusterNext]_clusterVars

(* A subscription to a row, to a range or to the first items of an order   *)
(* is told of every change, in order and once, or it is told that it is    *)
(* over; what it has been told of first items is what the table has.       *)
FeedsInv == CfInv /\ LfInv
=============================================================================
