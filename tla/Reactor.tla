------------------------------ MODULE Reactor ------------------------------
(***************************************************************************)
(* The reactors of one table (clustering/reactor): on every server a       *)
(* coroutine plays the role the server's blueprint gives it for a region   *)
(* -- primary, secondary or nothing -- and the servers coordinate through  *)
(* nothing but the activities they publish in the directory and the acks   *)
(* of directory_echo.                                                      *)
(*                                                                         *)
(* There is one region.  The blueprints of two servers need not agree: a   *)
(* blueprint is computed from metadata that reaches the servers at         *)
(* different times.  What a server has published is a log; what another    *)
(* server sees of it is a position in that log which only advances (the    *)
(* module Directory), and the ack of a version is sent once the version    *)
(* has been seen, so a position that was reached is also the largest       *)
(* version acked.  A version of the data is a branch and a timestamp, 0    *)
(* being the root pseudobranch; an interrupted backfill leaves a range of  *)
(* versions.  How a backfill and the replication of writes work is in the  *)
(* modules Backfill and Branch; here each is a start, an end, or a loss.   *)
(***************************************************************************)
EXTENDS Naturals, Sequences, FiniteSets

CONSTANTS RcServers, RcBlueprints,
          RcMaxChanges,   \* new blueprints, all servers together
          RcMaxWrites,    \* timestamps
          RcMaxBacklog,   \* activities that some server has yet to see
          RcMaxFaults     \* lost connections and restarts

ASSUME RcAssumption == /\ RcServers \subseteq Nat \ {0}
                       /\ RcMaxChanges \in Nat
                       /\ RcMaxWrites \in Nat
                       /\ RcMaxFaults \in Nat
                       /\ RcMaxBacklog \in Nat \ {0}

VARIABLES rcBp,      \* the blueprint each reactor has
          rcRole,    \* the role coroutine of each reactor
          rcLog,     \* the activities each reactor has published
          rcView,    \* rcView[t][s]: what t sees of s's log
          rcPlace,   \* the server each one backfills from, 0 when it is gone
          rcLinks,   \* the pairs of servers that are connected
          rcStore,   \* the version range in each server's metainfo
          rcBirth,   \* the origin of every branch
          rcKnown,   \* the branches each branch history manager knows
          rcCount

rcVars == <<rcBp, rcRole, rcLog, rcView, rcPlace, rcLinks, rcStore, rcBirth,
            rcKnown, rcCount>>

(***************************************************************************)
(* Versions and their history                                              *)
(***************************************************************************)
Root == [branch |-> 0, ts |-> 0]

Coherent(range) == range.earliest = range.latest

Exactly(version) == [earliest |-> version, latest |-> version]

\* The branches a version descends from, its own included.
Lineage(b) == LET up[n \in 0..Len(rcBirth)] ==
                    IF n = 0 THEN {} ELSE {n} \cup up[rcBirth[n].branch]
              IN  up[b]

\* export_branch_history: the branches a range of versions refers to.
ExportBranchHistory(range) ==
  Lineage(range.earliest.branch) \cup Lineage(range.latest.branch)

VersionIsAncestor(v, w) ==
  LET under[x \in [branch : 0..Len(rcBirth), ts : 0..RcMaxWrites]] ==
        \/ v.branch = 0
        \/ /\ x.branch # 0
           /\ IF x.branch = v.branch THEN v.ts <= x.ts
              ELSE under[rcBirth[x.branch]]
  IN  under[w]

VersionIsDivergent(v, w) == ~VersionIsAncestor(v, w) /\ ~VersionIsAncestor(w, v)

(***************************************************************************)
(* The directory                                                           *)
(***************************************************************************)
\* An activity; the fields that one has no use for hold these values.
Activity(name) == [name |-> name, state |-> Exactly(Root), branch |-> 0,
                   replier |-> FALSE]

\* The servers that s's blueprint mentions.
Peers(s) == DOMAIN rcBp[s]

\* directory_entry_t::set: a new version of what the server publishes.  The
\* services of the old activity are gone with it.
Publish(s, activity) ==
  /\ Len(rcLog[s]) < RcMaxBacklog
  /\ rcLog' = [rcLog EXCEPT ![s] = Append(@, activity)]
  /\ rcView' = [t \in RcServers |->
                 IF rcView[t][s].up THEN rcView[t] ELSE [rcView[t] EXCEPT ![s].at = 0]]

Set(s, activity) ==
  /\ Publish(s, activity)
  /\ rcPlace' = [t \in RcServers |-> IF rcPlace[t] = s THEN 0 ELSE rcPlace[t]]

Now(s) == rcLog[s][Len(rcLog[s])]

\* What t's mirror of the directory holds for s.
Sees(t, s) == IF t = s THEN Now(s)
              ELSE IF rcView[t][s].up THEN rcLog[s][rcView[t][s].at]
              ELSE Activity("disconnected")

Linked(s, t) == s = t \/ {s, t} \in rcLinks

\* The directory brings a later version of s's activities to t, not
\* necessarily the next one; the first one after a connection is made is the
\* one that is current then.  The ack of the version follows.  Versions that
\* every connected server has passed are forgotten.
DirectoryUpdate(t, s) ==
  /\ t # s /\ Linked(t, s)
  /\ \E n \in 1..Len(rcLog[s]) :
       LET at == [u \in RcServers |-> IF u = t THEN n ELSE rcView[u][s].at]
           seen == {at[u] : u \in {u \in Peers(s) \ {s} : u = t \/ rcView[u][s].up}}
           old == (CHOOSE m \in seen : \A k \in seen : m <= k) - 1
       IN  /\ IF rcView[t][s].up THEN n > rcView[t][s].at ELSE n = Len(rcLog[s])
           /\ rcLog' = [rcLog EXCEPT ![s] = SubSeq(@, old + 1, Len(@))]
           /\ rcView' = [u \in RcServers |-> [rcView[u] EXCEPT
                           ![s] = [at |-> IF at[u] > old THEN at[u] - old ELSE 0,
                                   up |-> u = t \/ @.up]]]
  /\ UNCHANGED <<rcBp, rcRole, rcPlace, rcLinks, rcStore, rcBirth, rcKnown, rcCount>>

\* wait_for_directory_acks: every server has seen what s published last.
AllAcked(s) == \A t \in Peers(s) \ {s} : rcView[t][s].at = Len(rcLog[s])

(***************************************************************************)
(* Roles                                                                   *)
(***************************************************************************)
NewRole(role) == [is |-> role, stage |-> "start", aborted |-> FALSE,
                  branch |-> 0]

Runs(s, role, stage) == rcRole[s].is = role /\ rcRole[s].stage = stage

\* The role waits in this stage, and a wait throws once it is interrupted.
Waits(s, role, stage) == Runs(s, role, stage) /\ ~rcRole[s].aborted

Goes(s, stage) == rcRole' = [rcRole EXCEPT ![s].stage = stage]

\* The reactor gets a new blueprint (on_blueprint_changed): a role that it
\* changes is told to abort, another one uses the new blueprint from now on.
\* Servers do not enter the cluster and are not removed from it for good.
OnBlueprintChanged(s, bp) ==
  /\ rcCount.changes < RcMaxChanges
  /\ bp # rcBp[s] /\ DOMAIN bp = Peers(s)
  /\ s \in Peers(s)
  /\ rcCount' = [rcCount EXCEPT !.changes = @ + 1]
  /\ rcBp' = [rcBp EXCEPT ![s] = bp]
  /\ rcRole' = [rcRole EXCEPT ![s].aborted = @ \/ bp[s] # rcRole[s].is]
  /\ UNCHANGED <<rcLog, rcView, rcPlace, rcLinks, rcStore, rcBirth, rcKnown>>

\* The be_... function returns because it was interrupted: its entry is
\* removed from the directory, and try_spawn_roles starts the role that the
\* blueprint now gives.
RunRole(s) ==
  /\ rcRole[s].aborted
  /\ Set(s, Activity("none"))
  /\ rcRole' = [rcRole EXCEPT ![s] = NewRole(rcBp[s][s])]
  /\ UNCHANGED <<rcBp, rcLinks, rcStore, rcBirth, rcKnown, rcCount>>

(***************************************************************************)
(* be_primary                                                              *)
(***************************************************************************)
\* The peers of s whose activity is not in the way of a new primary.
HarmlessActivities == {"secondary_without_primary", "nothing_when_safe",
                       "nothing", "nothing_when_done_erasing"}

Offers == {"secondary_without_primary", "nothing_when_safe"}

Unknown(s, t) == /\ Sees(s, t).name \in Offers
                 /\ ~(ExportBranchHistory(Sees(s, t).state) \subseteq rcKnown[s])

\* The versions that s chooses from: its own and the ones it is offered.
Offered(s) == {t \in Peers(s) \ {s} : Sees(s, t).name \in Offers}

RangeAt(s, t) == IF t = s THEN rcStore[s] ELSE Sees(s, t).state

\* u's version beats t's: it is a later one, or the coherent one of two
\* ranges with the same end.
Beats(s, u, t) ==
  LET new == RangeAt(s, u)
      old == RangeAt(s, t)
  IN  \/ new.latest # old.latest /\ VersionIsAncestor(old.latest, new.latest)
      \/ new.latest = old.latest /\ Coherent(new) /\ ~Coherent(old)

\* The places with the best version.  s's own copy is the first incumbent,
\* the peers follow in the order of their ids.
Best(s) == {t \in Offered(s) \cup {s} : \A u \in Offered(s) \cup {s} : ~Beats(s, u, t)}

Chosen(s) == IF s \in Best(s) THEN s ELSE CHOOSE t \in Best(s) : \A u \in Best(s) : t <= u

IsSafeForUsToBePrimary(s) ==
  /\ \A t \in Peers(s) \ {s} : Sees(s, t).name \in HarmlessActivities /\ ~Unknown(s, t)
  /\ \A t, u \in Offered(s) \cup {s} :
       ~VersionIsDivergent(RangeAt(s, t).latest, RangeAt(s, u).latest)
  /\ Coherent(RangeAt(s, Chosen(s)))

BePrimary(s) ==
  /\ Waits(s, "primary", "start")
  /\ Set(s, Activity("primary_when_safe"))
  /\ Goes(s, "acks")
  /\ UNCHANGED <<rcBp, rcLinks, rcStore, rcBirth, rcKnown, rcCount>>

(* Mutant: it does not wait for the acks.                                  *)
PrimaryIsAckedMutant(s) ==
  /\ Waits(s, "primary", "acks")
  /\ Goes(s, "checking")
  /\ UNCHANGED <<rcBp, rcLog, rcView, rcPlace, rcLinks, rcStore, rcBirth, rcKnown, rcCount>>

PrimaryIsAcked(s) ==
  /\ Waits(s, "primary", "acks")
  /\ AllAcked(s)
  /\ Goes(s, "checking")
  /\ UNCHANGED <<rcBp, rcLog, rcView, rcPlace, rcLinks, rcStore, rcBirth, rcKnown, rcCount>>

\* A peer offers a version of a branch that s has never heard of.
ImportBranchHistory(s) ==
  /\ Waits(s, "primary", "checking")
  /\ \E t \in Peers(s) \ {s} :
       /\ Unknown(s, t)
       /\ \A u \in Peers(s) \ {s} : u < t => Sees(s, u).name \in HarmlessActivities
       /\ rcKnown' = [rcKnown EXCEPT ![s] = @ \cup ExportBranchHistory(Sees(s, t).state)]
  /\ UNCHANGED <<rcBp, rcRole, rcLog, rcView, rcPlace, rcLinks, rcStore, rcBirth, rcCount>>

\* Where s is to backfill from, unless what it sees there is history.
Place(s, t) == IF t # s /\ rcView[s][t].at = Len(rcLog[t]) THEN t ELSE 0

\* It is safe: backfill from the best place, if that is not s itself.  The
\* activity is published again, unchanged.
FindBackfillers(s) ==
  /\ Waits(s, "primary", "checking")
  /\ IsSafeForUsToBePrimary(s)
  /\ Goes(s, IF Chosen(s) = s THEN "complete" ELSE "backfill")
  /\ rcPlace' = [rcPlace EXCEPT ![s] = Place(s, Chosen(s))]
  /\ UNCHANGED <<rcBp, rcLog, rcView, rcLinks, rcStore, rcBirth, rcKnown, rcCount>>

\* The activity that s backfills from is still there.
PlaceIsThere(s) == rcPlace[s] # 0 /\ Linked(s, rcPlace[s])

DoBackfill(s) ==
  /\ Waits(s, "primary", "backfill")
  /\ PlaceIsThere(s)
  /\ rcStore' = [rcStore EXCEPT ![s].latest = rcStore[rcPlace[s]].latest]
  /\ Goes(s, "backfilling")
  /\ UNCHANGED <<rcBp, rcLog, rcView, rcPlace, rcLinks, rcBirth, rcKnown, rcCount>>

BackfillIsDone(s) ==
  /\ Waits(s, "primary", "backfilling")
  /\ PlaceIsThere(s)
  /\ rcStore' = [rcStore EXCEPT ![s] = Exactly(@.latest)]
  /\ Goes(s, "complete")
  /\ UNCHANGED <<rcBp, rcLog, rcView, rcPlace, rcLinks, rcBirth, rcKnown, rcCount>>

\* The place went away: look for another one.
BackfillFails(s) ==
  /\ Waits(s, "primary", "backfill") \/ Waits(s, "primary", "backfilling")
  /\ ~PlaceIsThere(s)
  /\ Goes(s, "checking")
  /\ UNCHANGED <<rcBp, rcLog, rcView, rcPlace, rcLinks, rcStore, rcBirth, rcKnown, rcCount>>

\* The broadcaster_t starts a branch where the store is.
NewBroadcaster(s) ==
  LET branch == Len(rcBirth) + 1
  IN  /\ Waits(s, "primary", "complete")
      /\ rcBirth' = Append(rcBirth, rcStore[s].earliest)
      /\ rcKnown' = [rcKnown EXCEPT ![s] = @ \cup {branch}]
      /\ rcStore' = [rcStore EXCEPT ![s] = Exactly([branch |-> branch, ts |-> @.latest.ts])]
      /\ rcRole' = [rcRole EXCEPT ![s].stage = "broadcaster", ![s].branch = branch]
      /\ UNCHANGED <<rcBp, rcLog, rcView, rcPlace, rcLinks, rcCount>>

AnnounceBroadcaster(s) ==
  /\ Runs(s, "primary", "broadcaster")
  /\ Set(s, [Activity("primary") EXCEPT !.branch = rcRole[s].branch])
  /\ Goes(s, "announced")
  /\ UNCHANGED <<rcBp, rcLinks, rcStore, rcBirth, rcKnown, rcCount>>

\* The server makes a listener and a replier for its broadcaster, and takes
\* queries; update_without_changing_id keeps the activity.
AnnounceReplier(s) ==
  /\ Waits(s, "primary", "announced")
  /\ Publish(s, [Activity("primary") EXCEPT !.branch = rcRole[s].branch, !.replier = TRUE])
  /\ Goes(s, "serving")
  /\ UNCHANGED <<rcBp, rcPlace, rcLinks, rcStore, rcBirth, rcKnown, rcCount>>

\* A write: the primary acknowledges it as soon as it has it itself.
Write(s) ==
  /\ Runs(s, "primary", "serving")
  /\ rcStore[s].latest.ts < RcMaxWrites
  /\ rcStore' = [rcStore EXCEPT ![s] = Exactly([@.latest EXCEPT !.ts = @ + 1])]
  /\ UNCHANGED <<rcBp, rcRole, rcLog, rcView, rcPlace, rcLinks, rcBirth, rcKnown, rcCount>>

(***************************************************************************)
(* be_secondary                                                            *)
(***************************************************************************)
\* The top of the loop: offer backfills of what the store holds.
BeSecondary(s) ==
  /\ Waits(s, "secondary", "start")
  /\ Set(s, [Activity("secondary_without_primary") EXCEPT !.state = rcStore[s]])
  /\ Goes(s, "looking")
  /\ UNCHANGED <<rcBp, rcLinks, rcStore, rcBirth, rcKnown, rcCount>>

\* find_broadcaster_in_directory: exactly one server is primary.
FindBroadcaster(s) ==
  /\ Waits(s, "secondary", "looking")
  /\ \E p \in Peers(s) :
       /\ {q \in Peers(s) : Sees(s, q).name = "primary"} = {p}
       /\ rcRole' = [rcRole EXCEPT ![s].stage = "found", ![s].branch = Sees(s, p).branch]
  /\ UNCHANGED <<rcBp, rcLog, rcView, rcPlace, rcLinks, rcStore, rcBirth, rcKnown, rcCount>>

IsReplier(activity, branch) ==
  /\ activity.branch = branch
  /\ activity.name = "secondary_up_to_date" \/ activity.replier

\* find_replier_in_directory; s stops offering backfills.
FindReplier(s) ==
  /\ Waits(s, "secondary", "found")
  /\ \E r \in Peers(s) :
       /\ IsReplier(Sees(s, r), rcRole[s].branch)
       /\ rcPlace' = [t \in RcServers |-> IF t = s THEN Place(s, r)
                                           ELSE IF rcPlace[t] = s THEN 0 ELSE rcPlace[t]]
  /\ Publish(s, Activity("secondary_backfilling"))
  /\ Goes(s, "joining")
  /\ UNCHANGED <<rcBp, rcLinks, rcStore, rcBirth, rcKnown, rcCount>>

\* The broadcaster of the branch is alive, at a server that s can reach.
BroadcasterIsThere(s) ==
  \E p \in RcServers : /\ Linked(s, p)
                       /\ rcRole[p].is = "primary"
                       /\ rcRole[p].branch = rcRole[s].branch
                       /\ rcRole[p].stage \in {"announced", "serving"}

\* The constructor of listener_t: s learns the history of the branch,
\* registers with the broadcaster and starts to backfill.
ListenerBackfills(s) ==
  /\ Waits(s, "secondary", "joining")
  /\ BroadcasterIsThere(s)
  /\ PlaceIsThere(s)
  /\ rcKnown' = [rcKnown EXCEPT ![s] = @ \cup Lineage(rcRole[s].branch)]
  /\ rcStore' = [rcStore EXCEPT ![s].latest = rcStore[rcPlace[s]].latest]
  /\ Goes(s, "backfilling")
  /\ UNCHANGED <<rcBp, rcLog, rcView, rcPlace, rcLinks, rcBirth, rcCount>>

\* The backfill has ended and the listener is up to date.
SecondaryIsUpToDate(s) ==
  /\ Waits(s, "secondary", "backfilling")
  /\ BroadcasterIsThere(s)
  /\ PlaceIsThere(s)
  /\ rcStore' = [rcStore EXCEPT ![s] = Exactly(@.latest)]
  /\ Set(s, [Activity("secondary_up_to_date") EXCEPT !.branch = rcRole[s].branch])
  /\ Goes(s, "following")
  /\ UNCHANGED <<rcBp, rcLinks, rcBirth, rcKnown, rcCount>>

\* A write reaches the listener of s.
Replicate(s) ==
  /\ Waits(s, "secondary", "following")
  /\ BroadcasterIsThere(s)
  /\ \E p \in RcServers : /\ rcRole[p].is = "primary"
                          /\ rcRole[p].branch = rcRole[s].branch
                          /\ rcStore[s].latest.ts < rcStore[p].latest.ts
  /\ rcStore' = [rcStore EXCEPT ![s] = Exactly([@.latest EXCEPT !.ts = @ + 1])]
  /\ UNCHANGED <<rcBp, rcRole, rcLog, rcView, rcPlace, rcLinks, rcBirth, rcKnown, rcCount>>

(* Mutant: the lost signal is not watched once up to date.                 *)
SecondaryLosesMutant(s) ==
  /\ \/ /\ Waits(s, "secondary", "joining") \/ Waits(s, "secondary", "backfilling")
        /\ ~BroadcasterIsThere(s) \/ ~PlaceIsThere(s)
  /\ rcRole' = [rcRole EXCEPT ![s] = NewRole("secondary")]
  /\ UNCHANGED <<rcBp, rcLog, rcView, rcPlace, rcLinks, rcStore, rcBirth, rcKnown, rcCount>>

\* The broadcaster or the replier is lost: back to the top of the loop.
SecondaryLoses(s) ==
  /\ \/ /\ Waits(s, "secondary", "joining") \/ Waits(s, "secondary", "backfilling")
        /\ ~BroadcasterIsThere(s) \/ ~PlaceIsThere(s)
     \/ Waits(s, "secondary", "following") /\ ~BroadcasterIsThere(s)
  /\ rcRole' = [rcRole EXCEPT ![s] = NewRole("secondary")]
  /\ UNCHANGED <<rcBp, rcLog, rcView, rcPlace, rcLinks, rcStore, rcBirth, rcKnown, rcCount>>

(***************************************************************************)
(* be_nothing                                                              *)
(***************************************************************************)
\* A server that has no data is nothing at once; another one says that it
\* wants to leave and offers backfills of its data.
BeNothing(s) ==
  /\ Waits(s, "nothing", "start")
  /\ IF rcStore[s] = Exactly(Root)
     THEN Set(s, Activity("nothing")) /\ Goes(s, "nothing")
     ELSE /\ Set(s, [Activity("nothing_when_safe") EXCEPT !.state = rcStore[s]])
          /\ Goes(s, "acks")
  /\ UNCHANGED <<rcBp, rcLinks, rcStore, rcBirth, rcKnown, rcCount>>

NothingIsAcked(s) ==
  /\ Waits(s, "nothing", "acks")
  /\ AllAcked(s)
  /\ Goes(s, "leaving")
  /\ UNCHANGED <<rcBp, rcLog, rcView, rcPlace, rcLinks, rcStore, rcBirth, rcKnown, rcCount>>

\* Every server is what the blueprint wants it to be.
IsSafeForUsToBeNothing(s) ==
  \A t \in Peers(s) :
    /\ Sees(s, t).name \notin {"disconnected", "none"}
    /\ rcBp[s][t] = "primary" => Sees(s, t).name = "primary"
    /\ rcBp[s][t] = "secondary" => Sees(s, t).name = "secondary_up_to_date"

StartErasing(s) ==
  /\ Waits(s, "nothing", "leaving")
  /\ IsSafeForUsToBeNothing(s)
  /\ Set(s, Activity("nothing_when_done_erasing"))
  /\ Goes(s, "erasing")
  /\ UNCHANGED <<rcBp, rcLinks, rcStore, rcBirth, rcKnown, rcCount>>

\* reset_data may have erased everything by the time it is interrupted.
ResetData(s) ==
  /\ Runs(s, "nothing", "erasing")
  /\ rcStore' = [rcStore EXCEPT ![s] = Exactly(Root)]
  /\ Set(s, Activity("nothing"))
  /\ Goes(s, "nothing")
  /\ UNCHANGED <<rcBp, rcLinks, rcBirth, rcKnown, rcCount>>

(***************************************************************************)
(* Faults                                                                  *)
(***************************************************************************)
\* The servers of the pairs in D no longer see each other, ...
Blind(D) ==
  [t \in RcServers |-> [s \in RcServers |->
    IF <<t, s>> \in D
    THEN [at |-> IF rcView[t][s].at = Len(rcLog[s]) THEN Len(rcLog[s]) ELSE 0, up |-> FALSE]
    ELSE rcView[t][s]]]

\* ... a listener loses its registration with the broadcaster, ...
Unregistered(D) ==
  [s \in RcServers |->
    IF /\ rcRole[s].is = "secondary" /\ rcRole[s].stage \in {"backfilling", "following"}
       /\ \E p \in RcServers : /\ <<s, p>> \in D
                               /\ rcRole[p].is = "primary"
                               /\ rcRole[p].branch = rcRole[s].branch
    THEN [rcRole[s] EXCEPT !.branch = 0] ELSE rcRole[s]]

\* ... and a backfill its source.
Unplaced(D) == [s \in RcServers |-> IF <<s, rcPlace[s]>> \in D THEN 0 ELSE rcPlace[s]]

LinkBreaks(s, t) ==
  LET D == {<<s, t>>, <<t, s>>}
  IN  /\ rcCount.faults < RcMaxFaults
      /\ {s, t} \in rcLinks
      /\ rcCount' = [rcCount EXCEPT !.faults = @ + 1]
      /\ rcLinks' = rcLinks \ {{s, t}}
      /\ rcView' = Blind(D)
      /\ rcRole' = Unregistered(D)
      /\ rcPlace' = Unplaced(D)
      /\ UNCHANGED <<rcBp, rcLog, rcStore, rcBirth, rcKnown>>

LinkIsMade(s, t) ==
  /\ s # t
  /\ {s, t} \notin rcLinks
  /\ rcLinks' = rcLinks \cup {{s, t}}
  /\ UNCHANGED <<rcBp, rcRole, rcLog, rcView, rcPlace, rcStore, rcBirth, rcKnown, rcCount>>

\* The server stops and starts again with a new peer id.  The metainfo and
\* the branch history are on disk.
Restart(s) ==
  LET D == {s} \X RcServers \cup RcServers \X {s}
  IN  /\ rcCount.faults < RcMaxFaults
      /\ rcCount' = [rcCount EXCEPT !.faults = @ + 1]
      /\ rcLinks' = {pair \in rcLinks : s \notin pair}
      /\ rcLog' = [rcLog EXCEPT ![s] = <<Activity("none")>>]
      /\ rcView' = [t \in RcServers |-> [u \in RcServers |->
                     IF u = s THEN [at |-> 0, up |-> FALSE] ELSE Blind(D)[t][u]]]
      /\ rcPlace' = [Unplaced(D) EXCEPT ![s] = 0]
      /\ rcRole' = [Unregistered(D) EXCEPT ![s] = NewRole(rcBp[s][s])]
      /\ UNCHANGED <<rcBp, rcStore, rcBirth, rcKnown>>

RcInit ==
  /\ \E bp \in RcBlueprints :
       /\ rcBp = [s \in RcServers |-> bp]
       /\ rcRole = [s \in RcServers |-> NewRole(IF s \in DOMAIN bp THEN bp[s] ELSE "none")]
  /\ rcLog = [s \in RcServers |-> <<Activity("none")>>]
  /\ rcView = [t \in RcServers |-> [s \in RcServers |-> [at |-> 1, up |-> s # t]]]
  /\ rcPlace = [s \in RcServers |-> 0]
  /\ rcLinks = {{s, t} : s, t \in RcServers} \ {{s} : s \in RcServers}
  /\ rcStore = [s \in RcServers |-> Exactly(Root)]
  /\ rcBirth = <<>>
  /\ rcKnown = [s \in RcServers |-> {}]
  /\ rcCount = [changes |-> 0, faults |-> 0]

\* One step of the reactor of s.
RcStep(s) ==
  \/ RunRole(s)
  \/ BePrimary(s) \/ PrimaryIsAcked(s) \/ ImportBranchHistory(s) \/ FindBackfillers(s)
  \/ DoBackfill(s) \/ BackfillIsDone(s) \/ BackfillFails(s)
  \/ NewBroadcaster(s) \/ AnnounceBroadcaster(s) \/ AnnounceReplier(s)
  \/ BeSecondary(s) \/ FindBroadcaster(s) \/ FindReplier(s)
  \/ ListenerBackfills(s) \/ SecondaryIsUpToDate(s) \/ SecondaryLoses(s) \/ Replicate(s)
  \/ BeNothing(s) \/ NothingIsAcked(s) \/ StartErasing(s) \/ ResetData(s)

RcNext ==
  \/ \E s \in RcServers : RcStep(s) \/ Write(s) \/ (s \in Peers(s) /\ Restart(s))
  \/ \E s \in RcServers, bp \in RcBlueprints : OnBlueprintChanged(s, bp)
  \/ \E s, t \in RcServers :
       /\ {s, t} \subseteq Peers(s)
       /\ DirectoryUpdate(s, t) \/ LinkBreaks(s, t) \/ LinkIsMade(s, t)

RcSpec == RcInit /\ [][RcNext]_rcVars

(***************************************************************************)
(* Properties                                                              *)
(***************************************************************************)
\* Types: what a server sees of another one is something the other one has
\* published (the index into the log that directory_echo's versions are), and
\* versions belong to branches that exist.
RcTypeOK ==
  /\ rcBp \in [RcServers -> RcBlueprints]
  /\ rcPlace \in [RcServers -> RcServers \cup {0}]
  /\ \A s, t \in RcServers : rcView[t][s].at \in 0..Len(rcLog[s])
  /\ \A s \in RcServers : /\ rcStore[s].latest.branch \in 0..Len(rcBirth)
                          /\ rcKnown[s] \subseteq 1..Len(rcBirth)

\* Two servers whose blueprints make each of them primary never have a
\* broadcaster at the same time: each has published primary_when_safe and has
\* the acks of all before it looks at what the others are
\* (wait_for_directory_acks and is_safe_for_us_to_be_primary).
OnePrimary ==
  \A s, t \in RcServers :
    (/\ rcRole[s].is = "primary" /\ rcRole[s].branch # 0
     /\ rcRole[t].is = "primary" /\ rcRole[t].branch # 0) => s = t

\* The newest version of the data: the last write of the last branch.
Newest ==
  LET T == {rcStore[s].latest.ts :
              s \in {s \in RcServers : rcStore[s].latest.branch = Len(rcBirth)}}
  IN  [branch |-> Len(rcBirth),
       ts |-> IF T = {} THEN 0 ELSE CHOOSE m \in T : \A n \in T : n <= m]

\* A complete copy of everything ever written exists at all times, whatever
\* blueprints the servers get and in which order: be_nothing lets either of two
\* servers delete its data, "but never both".
DataSurvives == \E s \in RcServers : rcStore[s] = Exactly(Newest)

\* The histories of two servers never diverge, and a secondary is always on
\* the timeline of the broadcaster it joins, which listener_t's constructor
\* asserts: a primary starts its branch where the latest data is.
SameTimeline ==
  /\ \A s, t \in RcServers : ~VersionIsDivergent(rcStore[s].latest, rcStore[t].latest)
  /\ \A s \in RcServers :
       LET mine == rcStore[s].latest
           branch == rcRole[s].branch
       IN  (Runs(s, "secondary", "joining") /\ BroadcasterIsThere(s)) =>
             \/ mine.branch = branch
             \/ VersionIsAncestor(mine, [branch |-> branch, ts |-> rcBirth[branch].ts])

\* A server always knows the branches that its data descends from: otherwise
\* get_branch fails when it next offers its data (export_branch_history) or
\* compares it (version_is_ancestor).
BranchesAreKnown ==
  \A s \in RcServers : ExportBranchHistory(rcStore[s]) \subseteq rcKnown[s]

\* Everything has arrived, the servers agree, and no reactor can take a step.
RcQuiet ==
  /\ \A s \in RcServers : \A t \in Peers(s) :
       /\ rcRole[t].stage # "start"
       /\ Linked(s, t)
       /\ s # t /\ s \in Peers(s) => rcView[t][s] = [at |-> Len(rcLog[s]), up |-> TRUE]
       /\ rcBp[s] = rcBp[t]
  /\ ~ENABLED (\E s \in RcServers : RcStep(s))

LastStage == [primary |-> "serving", secondary |-> "following", nothing |-> "nothing"]

\* s waits for a replier of a branch whose broadcaster is gone.
WaitsForTheDead(s) == Runs(s, "secondary", "found") /\ ~BroadcasterIsThere(s)

\* Nobody waits for somebody else who waits: when the servers agree on a
\* blueprint and nothing moves any more, every server plays its role in full,
\* except after what SecondariesGoAround is about.
BlueprintIsCarriedOut ==
  RcQuiet => \/ \A s \in RcServers : s \in Peers(s) => rcRole[s].stage = LastStage[rcBp[s][s]]
             \/ \E s \in RcServers : WaitsForTheDead(s)

(***************************************************************************)
(* What a comment says and the code does not do                            *)
(***************************************************************************)
\* A secondary that has found a broadcaster which then goes away goes through
\* its loop again, as the comment in be_secondary says.  In the code it waits
\* for a replier of that broadcaster's branch, and there will never be one.
SecondariesGoAround == RcQuiet => \A s \in RcServers : ~WaitsForTheDead(s)

\* The reactors are right at all times: one primary, data that was acknowledged
\* on some server, one line of descent, no server that meets a branch it does
\* not know of, and nobody who waits for somebody who waits.
RcInv == /\ RcTypeOK
         /\ OnePrimary
         /\ DataSurvives
         /\ SameTimeline
         /\ BranchesAreKnown
         /\ BlueprintIsCarriedOut
=============================================================================
