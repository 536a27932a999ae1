------------------------------- MODULE BTree -------------------------------
(***************************************************************************)
(* A B-tree of leaves below one internal node or of a single leaf, with    *)
(* the recency of every node (btree/operations.cc), and the backfill that  *)
(* reads it (btree/backfill.cc) and is applied to the tree of another      *)
(* replica (rdb_protocol/store.cc, erase_range.cc).                        *)
(*                                                                         *)
(* Writes on one tree exclude each other on the way down and hold their    *)
(* leaf while they change it, and a backfill reads a snapshot: each is one *)
(* step.  The internal node is not bounded.  The history of the contents   *)
(* is a ghost: it says what a version is.                                  *)
(***************************************************************************)
EXTENDS LeafNode

CONSTANTS
    TrPrefills,         \* what the first writes may be: k sets a key, -k deletes it
    TrMaxWrites,        \* bounds: further writes of this tree,
    TrMaxElsewhere,     \* writes of the table that this tree does not see,
    TrMaxBreaks         \* connections lost and backfills cut short

VARIABLES
    trPrimary,      \* the tree of the primary
    trReplica,      \* the tree of a secondary
    trVersion,      \* the version that the secondary's metainfo names
    trLink,         \* "streaming", "lost", or "partial": a backfill was cut short
    trPrefill,      \* the first writes of this behaviour
    trHistory,      \* ghost: the map that the tree stands for, at every version
    trSound,        \* ghost: no backfill was read from a tree that lost track
    trCount

trVars == <<trPrimary, trReplica, trVersion, trLink, trPrefill, trHistory, trSound, trCount>>

Newer(t1, t2) == IF t1 < t2 THEN t2 ELSE t1

(* The last leaf has no right bound.                                       *)
LastKey == Max(LnKeys)

EmptyTree == [leaves |-> <<[node |-> EmptyLeaf, recency |-> 0, bound |-> LastKey]>>,
              root |-> 0, fits |-> TRUE, ok |-> TRUE, kept |-> TRUE]

(* The leaf on the path of a key; equality goes to the left.               *)
LeafFor(t, k) == Min({i \in DOMAIN t.leaves : k <= t.leaves[i].bound})

LowerBound(t, i) == IF i = 1 THEN 0 ELSE t.leaves[i - 1].bound

RootIsLeaf(t) == Len(t.leaves) = 1

RootRecency(t) == IF RootIsLeaf(t) THEN t.leaves[1].recency ELSE t.root

Contents(t) == [k \in LnKeys |-> Lookup(t.leaves[LeafFor(t, k)].node, k)]

Noted(t, outcome) == [t EXCEPT !.fits = @ /\ outcome.fits, !.ok = @ /\ outcome.ok]
-----------------------------------------------------------------------------
(* find_keyvalue_location_for_write(): the recency of the internal nodes   *)
(* on the path.                                                            *)
Descended(t, ts) == IF RootIsLeaf(t) THEN t ELSE [t EXCEPT !.root = Newer(@, ts)]

(* check_and_handle_split(): a new root has the recency of the leaf as it  *)
(* was before the write.                                                   *)
SplitTree(t, i, leaf, split) ==
    [Noted(t, split) EXCEPT
        !.leaves = InsertAt(ReplaceAt(t.leaves, i, [leaf EXCEPT !.node = split.left,
                                                                !.bound = split.median]),
                            i + 1, [leaf EXCEPT !.node = split.right]),
        !.root   = IF RootIsLeaf(t) THEN leaf.recency ELSE @]

HandleSplit(t, k) ==
    LET i    == LeafFor(t, k)
        leaf == t.leaves[i]
    IN  IF IsFull(leaf.node, k) THEN SplitTree(t, i, leaf, SplitLeaf(leaf.node)) ELSE t

(* check_and_handle_underfull(): the sibling is the one to the left, if    *)
(* there is one.                                                           *)
NewestOf(t, i, s) == Newer(t.leaves[i].recency, t.leaves[s].recency)

MergeTree(t, l, merged) ==
    [Noted(t, merged) EXCEPT
        !.leaves = RemoveAt([t.leaves EXCEPT ![l + 1].node = merged.node,
                                             ![l + 1].recency = NewestOf(t, l, l + 1)], l)]

LevelTree(t, i, s, level) ==
    [Noted(t, level) EXCEPT
        !.kept = @ /\ level.kept,
        !.leaves[i].node = level.node,
        !.leaves[i].recency = NewestOf(t, i, s),
        !.leaves[s].node = level.sibling,
        !.leaves[IF i < s THEN i ELSE s].bound = level.replacement_key]

(* The leaf i is underfull, and s is its sibling.                          *)
WithSibling(t, i, s) ==
    IF IsUnderfull(t.leaves[s].node)
    THEN LET l == IF i < s THEN i ELSE s
         IN  MergeTree(t, l, MergeLeaves(t.leaves[l].node, t.leaves[l + 1].node))
    ELSE LevelTree(t, i, s, LevelLeaves(t.leaves[i].node, t.leaves[s].node, i < s))

HandleUnderfull(t, k) ==
    LET i == LeafFor(t, k)
    IN  IF RootIsLeaf(t) \/ ~IsUnderfull(t.leaves[i].node) THEN t
        ELSE WithSibling(t, i, IF i > 1 THEN i - 1 ELSE i + 1)

(* apply_keyvalue_change()                                                 *)
SetInLeaf(t, i, k, v, ts) ==
    LET leaf == t.leaves[i]
        set  == [leaf EXCEPT !.node = InsertKey(leaf.node, k, v, ts, leaf.recency),
                             !.recency = Newer(@, ts)]
    IN  [t EXCEPT !.leaves[i] = set, !.ok = @ /\ ~IsFull(leaf.node, k)]

SetInTree(t, k, v, ts) == HandleUnderfull(SetInLeaf(t, LeafFor(t, k), k, v, ts), k)

SetKey(t, k, v, ts) == SetInTree(HandleSplit(Descended(t, ts), k), k, v, ts)

DeleteKey(t, k, ts) ==
    LET i    == LeafFor(t, k)
        leaf == t.leaves[i]
        deleted == [leaf EXCEPT !.node = RemoveKey(leaf.node, k, ts, leaf.recency),
                                !.recency = Newer(@, ts)]
    IN  IF Lookup(leaf.node, k) = NoValue THEN Descended(t, ts)
        ELSE HandleUnderfull([Descended(t, ts) EXCEPT !.leaves[i] = deleted], k)

EraseKey(t, k) ==
    LET i == LeafFor(t, k)
    IN  HandleUnderfull([t EXCEPT !.leaves[i].node = ErasePresence(t.leaves[i].node, k)], k)

(* rdb_erase_small_range(): the keys present in the range, one by one.     *)
EraseRange(t, lo, hi) ==
    FoldLeft(EraseKey, t, Ascending({k \in LnKeys : /\ lo < k /\ k <= hi
                                                    /\ Contents(t)[k] # NoValue}))
-----------------------------------------------------------------------------
(* The backfill.                                                           *)

(* process_a_leaf(): the chunks of one leaf.                               *)
LeafChunks(t, i, since) ==
    LET leaf == t.leaves[i]
        dump == DumpEntriesSinceTime(leaf.node, since, leaf.recency)
    IN  (IF dump.lost_deletions
         THEN <<[chunk |-> "delete_range", low |-> LowerBound(t, i), high |-> leaf.bound]>> ELSE <<>>)
        \o [j \in DOMAIN dump.deletions |-> [chunk |-> "delete_key", entry |-> dump.deletions[j]]]
        \o [j \in DOMAIN dump.pairs |-> [chunk |-> "set_key", entry |-> dump.pairs[j]]]

(* filter_interesting_children(): only nodes that have changed since then. *)
(* Subtrees are visited in parallel; their ranges are disjoint.            *)
Chunks(t, since) ==
    IF RootRecency(t) < since THEN <<>>
    ELSE FlattenSeq([i \in DOMAIN t.leaves |->
                        IF t.leaves[i].recency >= since THEN LeafChunks(t, i, since) ELSE <<>>])

(* rdb_receive_backfill_visitor_t                                          *)
Received(t, c) ==
    CASE c.chunk = "delete_range" -> EraseRange(t, c.low, c.high)
      [] c.chunk = "delete_key"   -> DeleteKey(t, c.entry.key, c.entry.ts)
      [] c.chunk = "set_key"      -> SetKey(t, c.entry.key, c.entry.value, c.entry.ts)

ReceivedAll(t, chunks) == FoldLeft(Received, t, chunks)
-----------------------------------------------------------------------------
(* Actions.                                                                *)

Now == Max(DOMAIN trHistory)

TrInit ==
    /\ trPrimary = EmptyTree
    /\ trReplica = EmptyTree
    /\ trVersion = 0
    /\ trLink = "streaming"
    /\ trPrefill \in TrPrefills
    /\ trHistory = [v \in {0} |-> [k \in LnKeys |-> NoValue]]
    /\ trSound = TRUE
    /\ trCount = [writes |-> 0, elsewhere |-> 0, breaks |-> 0]

(* The first writes are given, then all are possible.                      *)
Prefilling == trCount.writes < Len(trPrefill)

MayWrite(k) ==
    IF Prefilling THEN trPrefill[trCount.writes + 1] = k
    ELSE trCount.writes < Len(trPrefill) + TrMaxWrites

(* After a move that overran its space a tree is not a tree any more.      *)
Intact == trPrimary.fits /\ trReplica.fits

(* The nodes that changed last can be found from the root, and what was    *)
(* deleted since a leaf's oldest timestamp is in that leaf.                *)
KeepsTrack(t) == t.kept /\ \A i \in DOMAIN t.leaves : t.leaves[i].recency <= RootRecency(t)

(* A write of the table; a secondary that listens performs it as well.     *)
Happened(contents, primary, replica) ==
    /\ trPrimary' = primary
    /\ trHistory' = [v \in DOMAIN trHistory \cup {Now + 1} |->
                        IF v = Now + 1 THEN contents ELSE trHistory[v]]
    /\ IF trLink = "streaming" THEN trReplica' = replica /\ trVersion' = Now + 1
                               ELSE UNCHANGED <<trReplica, trVersion>>
    /\ UNCHANGED <<trLink, trPrefill, trSound>>

Set(k) ==
    /\ Intact /\ MayWrite(k)
    /\ Happened([trHistory[Now] EXCEPT ![k] = Now + 1],
                SetKey(trPrimary, k, Now + 1, Now + 1), SetKey(trReplica, k, Now + 1, Now + 1))
    /\ trCount' = [trCount EXCEPT !.writes = @ + 1]

Delete(k) ==
    /\ Intact /\ MayWrite(-k)
    /\ trHistory[Now][k] # NoValue
    /\ Happened([trHistory[Now] EXCEPT ![k] = NoValue],
                DeleteKey(trPrimary, k, Now + 1), DeleteKey(trReplica, k, Now + 1))
    /\ trCount' = [trCount EXCEPT !.writes = @ + 1]

(* A write of the table whose keys are all in trees of other hash shards.  *)
Elsewhere ==
    /\ Intact /\ ~Prefilling /\ trCount.elsewhere < TrMaxElsewhere
    /\ Happened(trHistory[Now], trPrimary, trReplica)
    /\ trCount' = [trCount EXCEPT !.elsewhere = @ + 1]

Break ==
    /\ Intact /\ ~Prefilling /\ trLink = "streaming" /\ trCount.breaks < TrMaxBreaks
    /\ trLink' = "lost"
    /\ trCount' = [trCount EXCEPT !.breaks = @ + 1]
    /\ UNCHANGED <<trPrimary, trReplica, trVersion, trPrefill, trHistory, trSound>>

(* send_backfill() and receive_backfill(): the version is taken over with  *)
(* the last chunk.                                                         *)
Backfilled ==
    /\ Intact /\ trLink # "streaming"
    /\ trReplica' = ReceivedAll(trReplica, Chunks(trPrimary, trVersion))
    /\ trVersion' = Now
    /\ trLink' = "streaming"
    /\ trSound' = (trSound /\ KeepsTrack(trPrimary))
    /\ UNCHANGED <<trPrimary, trPrefill, trHistory, trCount>>

(* The connection is lost after some of the chunks.                        *)
BackfillCutShort ==
    /\ Intact /\ trLink # "streaming" /\ trCount.breaks < TrMaxBreaks
    /\ \E n \in 1..(Len(Chunks(trPrimary, trVersion)) - 1) :
           trReplica' = ReceivedAll(trReplica, SubSeq(Chunks(trPrimary, trVersion), 1, n))
    /\ trLink' = "partial"
    /\ trCount' = [trCount EXCEPT !.breaks = @ + 1]
    /\ UNCHANGED <<trPrimary, trVersion, trPrefill, trHistory, trSound>>

TrNext ==
    \/ \E k \in LnKeys : Set(k) \/ Delete(k)
    \/ Elsewhere \/ Break \/ Backfilled \/ BackfillCutShort

TrSpec == TrInit /\ [][TrNext]_trVars
-----------------------------------------------------------------------------
(* Properties.                                                             *)

TrTypeOK ==
    /\ trVersion \in DOMAIN trHistory
    /\ trLink \in {"streaming", "lost", "partial"}
    /\ trCount.writes \in 0..(Len(trPrefill) + TrMaxWrites)

(* What fsck() checks of a leaf.                                           *)
LeafIsValid(t, i) ==
    LET n  == t.leaves[i].node
        es == n.entries
    IN  /\ LnOffsetSize * Cardinality(Pairs(n)) <= Frontmost(n)
        /\ n.live = LiveSizeOf(es)
        /\ \A j \in 1..n.cut : j < n.cut => es[j].ts >= es[j + 1].ts
        /\ \A j \in (n.cut + 1)..Len(es) : ~IsDeletion(es[j])
        /\ \A j \in Pairs(n) : es[j].key > LowerBound(t, i) /\ es[j].key <= t.leaves[i].bound
        /\ Cardinality(KeysOf(n)) = Cardinality(Pairs(n))

TreeIsValid(t) == t.ok /\ \A i \in DOMAIN t.leaves : LeafIsValid(t, i)

Patched(contents, c) ==
    [k \in LnKeys |->
        CASE c.chunk = "delete_range" /\ c.low < k /\ k <= c.high -> NoValue
          [] c.chunk # "delete_range" /\ c.entry.key = k -> c.entry.value
          [] OTHER -> contents[k]]

(* The chunks for any earlier version, applied to a map of that version,   *)
(* make a map of this one.                                                 *)
BackfillsFromAnyPoint(t, version) ==
    \A v \in DOMAIN trHistory :
        v <= version => FoldLeft(Patched, trHistory[v], Chunks(t, v)) = trHistory[version]

(* Whatever was set, deleted, split, merged and levelled, every leaf of    *)
(* both trees passes fsck(), every assertion of split(), merge(), level(), *)
(* move_elements() and insert() held, and the primary's tree has exactly   *)
(* the values of the map that the writes define.                           *)
TreeInv ==
    /\ TrTypeOK
    /\ Intact => /\ TreeIsValid(trPrimary) /\ TreeIsValid(trReplica)
                 /\ Contents(trPrimary) = trHistory[Now]

(* A secondary that listens has the contents of its version, also after    *)
(* backfills that were cut short and begun again in the middle of a leaf.  *)
(* The backfill from the primary is complete from every version on, except *)
(* in a tree whose root is older than a leaf or whose level() lost track   *)
(* of a deletion, in which ChangesAreFound does not hold.                  *)
ReplicaFollows ==
    Intact =>
    /\ (trSound /\ trLink # "partial") => Contents(trReplica) = trHistory[trVersion]
    /\ KeepsTrack(trPrimary) => BackfillsFromAnyPoint(trPrimary, Now)

(* store_view.hpp: send_backfill() "expresses the changes that have        *)
(* happened since start_point", for every start point in the past.         *)
ChangesAreFound == Intact => BackfillsFromAnyPoint(trPrimary, Now)

(* move_elements() asserts that what it writes never reaches the entries   *)
(* that it has yet to read.                                                *)
MovesFit == Intact
=============================================================================
