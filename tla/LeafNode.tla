------------------------------ MODULE LeafNode ------------------------------
(***************************************************************************)
(* The leaf node of the B-tree (btree/leaf_node.cc) as a pure algorithm.   *)
(*                                                                         *)
(* A node is the sequence of its entries from `frontmost' to the end of    *)
(* the block, of which the first `cut' (up to tstamp_cutpoint) carry a     *)
(* timestamp, and its live_size.  An entry is live, a deletion or skipped  *)
(* space.  pair_offsets holds the entries that are not skipped in the      *)
(* order of their keys, so it is a function of the sequence.  Offsets are  *)
(* measured from the end of the fixed part of the header.                  *)
(***************************************************************************)
EXTENDS Integers, Sequences, FiniteSets, FiniteSetsExt, SequencesExt

CONSTANTS
    LnValueSize,                \* the size of the value stored under each key
    LnKeySize,                  \* btree_key_t::full_size()
    LnOffsetSize,               \* sizeof(uint16_t), an element of pair_offsets
    LnStampSize,                \* sizeof(repli_timestamp_t)
    LnFreeSpace,                \* free_space(): the block without its header
    MANDATORY_TIMESTAMPS,
    DELETION_RESERVE_FRACTION

LnKeys == DOMAIN LnValueSize

(* The key of skipped space, and the value of what is not live.            *)
NoKey == 0
NoValue == 0

ASSUME LnSizes ==
    /\ NoKey \notin LnKeys
    /\ LnKeySize \in Nat \ {0} /\ LnOffsetSize \in Nat \ {0} /\ LnStampSize \in Nat \ {0}
    /\ LnFreeSpace \in Nat
    /\ MANDATORY_TIMESTAMPS \in Nat \ {0} /\ DELETION_RESERVE_FRACTION \in Nat \ {0}
    /\ \A k \in LnKeys : LnValueSize[k] \in Nat
-----------------------------------------------------------------------------
(* The members of a set of numbers, in ascending order.                    *)
Ascending(S) ==
    [i \in 1..Cardinality(S) |-> CHOOSE x \in S : Cardinality({y \in S : y < x}) = i - 1]

(* Entries and nodes.                                                      *)

LiveEntry(k, v, ts) ==
    [kind |-> "live", key |-> k, value |-> v, ts |-> ts, size |-> LnKeySize + LnValueSize[k]]

(* DELETE_ENTRY_CODE is one byte.                                          *)
DeleteEntry(k, ts) ==
    [kind |-> "deletion", key |-> k, value |-> NoValue, ts |-> ts, size |-> 1 + LnKeySize]

SkipEntry(size) == [kind |-> "skip", key |-> NoKey, value |-> NoValue, ts |-> 0, size |-> size]

(* clean_entry(): the space and the timestamp of the entry stay.           *)
Skipped(e) == [SkipEntry(e.size) EXCEPT !.ts = e.ts]

SkippedAt(es, indices) == [i \in DOMAIN es |-> IF i \in indices THEN Skipped(es[i]) ELSE es[i]]

IsLive(e) == e.kind = "live"
IsDeletion(e) == e.kind = "deletion"
IsSkip(e) == e.kind = "skip"

Plain(e) == [e EXCEPT !.ts = 0]

PlainLives(es) == LET lives == SelectSeq(es, IsLive) IN [i \in DOMAIN lives |-> Plain(lives[i])]

EmptyLeaf == [entries |-> <<>>, cut |-> 0, live |-> 0]

SizeOf(es) == FoldLeft(LAMBDA sum, e : sum + e.size, 0, es)

LiveSizeOf(es) ==
    FoldLeft(LAMBDA sum, e : IF IsLive(e) THEN sum + LnOffsetSize + e.size ELSE sum, 0, es)

(* The bytes that stamped entries take.                                    *)
StampedSize(es) == SizeOf(es) + LnStampSize * Len(es)

Frontmost(n) == LnFreeSpace - (SizeOf(n.entries) + LnStampSize * n.cut)

Pairs(n) == {i \in DOMAIN n.entries : ~IsSkip(n.entries[i])}

KeysOf(n) == {n.entries[i].key : i \in Pairs(n)}

LargestKey(n) == Max(KeysOf(n))

(* The index of the entry of a key; the key is in the node.                *)
IndexOf(n, k) == CHOOSE i \in DOMAIN n.entries : n.entries[i].key = k

(* pair_offsets: the indices of the entries that have a key, by key.       *)
PairOffsets(n) == LET keys == Ascending(KeysOf(n)) IN [j \in DOMAIN keys |-> IndexOf(n, keys[j])]

(* lookup()                                                                *)
Lookup(n, k) == IF k \in KeysOf(n) THEN n.entries[IndexOf(n, k)].value ELSE NoValue
-----------------------------------------------------------------------------
(* mandatory_cost(): how many of the leading entries must keep their       *)
(* timestamps, and what the node costs if only those do.                   *)

DeletionCost(e) == LnOffsetSize + LnStampSize + e.size

DeletionsCost(es) ==
    FoldLeft(LAMBDA sum, e : IF IsDeletion(e) THEN sum + DeletionCost(e) ELSE sum, 0, es)

TstampBack(n, required) ==
    LET Before(i) == SubSeq(n.entries, 1, i)
        Stops(i) ==
            \/ Cardinality({j \in 1..i : ~IsSkip(n.entries[j])}) = required
            \/ i = n.cut
            \/ /\ IsDeletion(n.entries[i + 1])
               /\ DeletionsCost(Before(i)) >= LnFreeSpace \div DELETION_RESERVE_FRACTION
    IN  Min({i \in 0..n.cut : Stops(i)})

MandatoryCost(n, required) ==
    LET first == SubSeq(n.entries, 1, TstampBack(n, required))
    IN  n.live + DeletionsCost(first) + LnStampSize * Len(SelectSeq(first, IsLive))

Mandatory(n) == MandatoryCost(n, MANDATORY_TIMESTAMPS)

Back(n) == TstampBack(n, MANDATORY_TIMESTAMPS)

LeafEpsilon ==
    LnKeySize + Max({1} \cup {LnValueSize[k] : k \in LnKeys}) + LnOffsetSize + LnStampSize

IsFull(n, k) ==
    Mandatory(n) + LnOffsetSize + LnStampSize + LnKeySize + LnValueSize[k] > LnFreeSpace

(* Below it a node is underfull.  The code's difference is an int.         *)
Threshold ==
    IF LnFreeSpace \div 2 >= LeafEpsilon THEN LnFreeSpace \div 2 - LeafEpsilon ELSE 0

IsUnderfull(n) == Mandatory(n) < Threshold

GarbageCollect(n, tstamped) ==
    LET back    == TstampBack(n, tstamped)
        stamped == SelectSeq(SubSeq(n.entries, 1, back), LAMBDA e : ~IsSkip(e))
        rest    == SubSeq(n.entries, back + 1, Len(n.entries))
    IN  [entries |-> stamped \o PlainLives(rest), cut |-> Len(stamped), live |-> n.live]
-----------------------------------------------------------------------------
(* insert(), remove() and erase_presence().                                *)

(* The entry of k, if there is one, becomes skipped space.                 *)
Cleaned(n, k) ==
    IF k \notin KeysOf(n) THEN n
    ELSE LET i == IndexOf(n, k)
             e == n.entries[i]
         IN  [n EXCEPT !.entries = SkippedAt(n.entries, {i}),
                       !.live = IF IsLive(e) THEN @ - (LnOffsetSize + e.size) ELSE @]

(* The node in which prepare_space_for_new_entry() places an entry of this *)
(* size.  The slot of an existing entry is used again.                     *)
WithRoom(n, k, size) ==
    LET slots == Cardinality(KeysOf(n) \cup {k})
        clean == Cleaned(n, k)
    IN  IF LnOffsetSize * slots + LnStampSize + size > Frontmost(n)
        THEN GarbageCollect(clean, MANDATORY_TIMESTAMPS - 1)
        ELSE clean

(* How many entries stay in front of an entry with timestamp ts.           *)
PlaceFor(n, ts) == Min({i \in 0..n.cut : i = n.cut \/ n.entries[i + 1].ts <= ts})

(* Behind all the stamped entries and before one without a timestamp, a    *)
(* new entry has a timestamp only if it is newer than all that were there. *)
IsStamped(n, ts, maximum_existing_tstamp) ==
    \/ PlaceFor(n, ts) < n.cut
    \/ n.cut = Len(n.entries)
    \/ ts > maximum_existing_tstamp

PutEntry(n, e, maximum_existing_tstamp) ==
    LET stamped == IsStamped(n, e.ts, maximum_existing_tstamp)
        place   == PlaceFor(n, e.ts)
    IN  [entries |-> InsertAt(n.entries, place + 1, IF stamped THEN e ELSE Plain(e)),
         cut     |-> IF stamped THEN n.cut + 1 ELSE n.cut,
         live    |-> IF IsLive(e) THEN n.live + LnOffsetSize + e.size ELSE n.live]

InsertKey(n, k, v, ts, maximum_existing_tstamp) ==
    LET e == LiveEntry(k, v, ts)
    IN  PutEntry(WithRoom(n, k, e.size), e, maximum_existing_tstamp)

(* A deletion that would have no timestamp is not written.                 *)
RemoveKey(n, k, ts, maximum_existing_tstamp) ==
    LET e    == DeleteEntry(k, ts)
        room == WithRoom(n, k, e.size)
    IN  IF IsStamped(room, ts, maximum_existing_tstamp)
        THEN PutEntry(room, e, maximum_existing_tstamp)
        ELSE room

ErasePresence(n, k) == Cleaned(n, k)
-----------------------------------------------------------------------------
(* move_elements().  The entries at the indices `moved' of fro are merged  *)
(* with those of tow, the newer ones first, for as long as both still have *)
(* stamped ones; the others lose their timestamps, and the deletions among *)
(* them are lost.  The space for what comes from fro is copysize bytes in  *)
(* front of tow's entries: `fits' is the assertion that it is enough.      *)

(* As if the entries that come were newer than all that are there.         *)
MergedByTimeMutant(f, t) == f \o t

(* Two sequences of stamped entries, merged.  On equal timestamps the      *)
(* second one goes first.                                                  *)
MergedByTime(f, t) ==
    LET PlaceOfF(i) == i + Cardinality({j \in DOMAIN t : t[j].ts >= f[i].ts})
        PlaceOfT(j) == j + Cardinality({i \in DOMAIN f : f[i].ts > t[j].ts})
    IN  [p \in 1..(Len(f) + Len(t)) |->
            IF \E i \in DOMAIN f : PlaceOfF(i) = p
            THEN f[CHOOSE i \in DOMAIN f : PlaceOfF(i) = p]
            ELSE t[CHOOSE j \in DOMAIN t : PlaceOfT(j) = p]]

(* How many entries of each are merged before one of them runs out.        *)
MergedCounts(f, t) ==
    CASE f = <<>> \/ t = <<>> -> [f |-> 0, t |-> 0]
      [] Last(t).ts < Last(f).ts ->
            [f |-> Len(f), t |-> Len(SelectSeq(t, LAMBDA e : e.ts >= Last(f).ts))]
      [] OTHER -> [f |-> Len(SelectSeq(f, LAMBDA e : e.ts > Last(t).ts)), t |-> Len(t)]

EntriesAt(n, indices) ==
    LET order == Ascending(indices) IN [i \in DOMAIN order |-> n.entries[order[i]]]

(* What is merged of the stamped entries of both, and what is left over.   *)
Taken(f, t, count) ==
    [fro |-> SubSeq(f, 1, count.f), froLeft |-> SubSeq(f, count.f + 1, Len(f)),
     tow |-> SubSeq(t, 1, count.t), towLeft |-> SubSeq(t, count.t + 1, Len(t))]

MoveInto(fro, moved, tow, towPlain, taken, froLeft, towLeft, copysize) ==
    LET written   == StampedSize(taken.fro) + SizeOf(froLeft)
        room      == copysize + StampedSize(taken.towLeft)
        used      == written + SizeOf(towLeft)
        gap       == IF used < room THEN <<SkipEntry(room - used)>> ELSE <<>>
        movedLive == LiveSizeOf(EntriesAt(fro, moved))
    IN  [fro  |-> [fro EXCEPT !.entries = SkippedAt(fro.entries, moved),
                              !.live = @ - movedLive],
         tow  |-> [entries |-> MergedByTime(taken.fro, taken.tow) \o froLeft \o towLeft
                                   \o gap \o towPlain,
                   cut     |-> Len(taken.fro) + Len(taken.tow),
                   live    |-> tow.live + movedLive],
         fits |-> written <= copysize /\ used <= room,
         ok   |-> IsUnderfull(tow) /\ copysize + Mandatory(tow) <= LnFreeSpace]

MoveTaken(fro, moved, tow, towPlain, taken, froRest, copysize) ==
    MoveInto(fro, moved, tow, towPlain, taken, PlainLives(taken.froLeft \o froRest),
             PlainLives(taken.towLeft), copysize)

MoveStamped(fro, moved, tow, collected, froStamped, froRest, copysize) ==
    LET towStamped == SubSeq(collected.entries, 1, collected.cut)
    IN  MoveTaken(fro, moved, tow,
                  SubSeq(collected.entries, collected.cut + 1, Len(collected.entries)),
                  Taken(froStamped, towStamped, MergedCounts(froStamped, towStamped)),
                  froRest, copysize)

MoveElements(fro, moved, back, tow, copysize) ==
    MoveStamped(fro, moved, tow, GarbageCollect(tow, MANDATORY_TIMESTAMPS),
                EntriesAt(fro, {i \in moved : i <= back}),
                EntriesAt(fro, {i \in moved : i > back}), copysize)
-----------------------------------------------------------------------------
(* split(), merge() and level().  `ok' are their assertions.               *)

(* What an entry counts when a node is divided.                            *)
EntryCost(n, i) ==
    LET e == n.entries[i]
    IN  CASE i <= Back(n) -> e.size + LnOffsetSize + LnStampSize
          [] i > Back(n) /\ IsLive(e) -> e.size + LnOffsetSize
          [] OTHER -> 0

CostOf(n, indices) == MapThenSumSet(LAMBDA i : EntryCost(n, i), indices)

Mandatories(n, indices) == Cardinality({i \in indices : EntryCost(n, i) > 0})

CopySize(n, indices) == CostOf(n, indices) - LnOffsetSize * Mandatories(n, indices)

FirstPairs(n, m) == {PairOffsets(n)[j] : j \in 1..m}

LastPairs(n, m) ==
    LET pairs == PairOffsets(n) IN {pairs[j] : j \in (Len(pairs) - m + 1)..Len(pairs)}

RightCost(n, m) == CostOf(n, LastPairs(n, m))

(* How many pairs from the right make half of the node, and how many move. *)
SplitReached(n, mandatory) ==
    LET count == Cardinality(Pairs(n))
    IN  Min({m \in 0..count : m = count \/ RightCost(n, m) >= mandatory \div 2})

SplitMoved(mandatory, reached, rcost, prev) ==
    IF (mandatory - prev) - prev < rcost - (mandatory - rcost) THEN reached - 1 ELSE reached

SplitOutcome(n, mandatory, reached, moved, move) ==
    [left   |-> move.fro,
     right  |-> move.tow,
     median |-> LargestKey(move.fro),
     fits   |-> move.fits,
     ok     |-> /\ move.ok
                /\ mandatory >= LnFreeSpace - LeafEpsilon
                /\ reached < Cardinality(Pairs(n)) - 1
                /\ RightCost(n, reached) >= mandatory \div 2
                /\ RightCost(n, moved) >= Threshold
                /\ mandatory - RightCost(n, moved) >= Threshold]

SplitAfter(n, mandatory, reached, moved, last) ==
    SplitOutcome(n, mandatory, reached, moved,
                 MoveElements(n, last, Back(n), EmptyLeaf, CopySize(n, last)))

SplitAt(n, mandatory, reached, moved) ==
    SplitAfter(n, mandatory, reached, moved, LastPairs(n, moved))

SplitBetween(n, mandatory, reached) ==
    SplitAt(n, mandatory, reached,
            SplitMoved(mandatory, reached, RightCost(n, reached), RightCost(n, reached - 1)))

SplitLeaf(n) == SplitBetween(n, Mandatory(n), SplitReached(n, Mandatory(n)))

(* The left node is moved into the right one.  The loop takes an offset    *)
(* off for every entry with a mandatory timestamp and for every deletion.  *)
MergeOutcome(left, right, move) ==
    [node |-> move.tow,
     fits |-> move.fits,
     ok   |-> move.ok /\ IsUnderfull(left) /\ IsUnderfull(right)]

MergeLeaves(left, right) ==
    LET counted == {i \in Pairs(left) : i <= Back(left) \/ IsDeletion(left.entries[i])}
    IN  MergeOutcome(left, right,
            MoveElements(left, Pairs(left), Back(left), right,
                         Mandatory(left) - LnOffsetSize * Cardinality(counted)))

(* Elements move from the sibling into the node, from the sibling's side   *)
(* next to the node, until the node is no longer the lighter one.  (The    *)
(* step back that follows the loop in the code compares the last positive  *)
(* difference with one that is not: it is never taken.)  `kept' is a       *)
(* ghost: it says that the range of the node takes in all it was given,    *)
(* the deletions that were lost on the way included.                       *)
NearPairs(sibling, m, node_is_left) ==
    IF node_is_left THEN FirstPairs(sibling, m) ELSE LastPairs(sibling, m)

LevelOutcome(node, sibling, node_is_left, near, move) ==
    [node     |-> move.tow,
     sibling  |-> move.fro,
     replacement_key |-> LargestKey(IF node_is_left THEN move.tow ELSE move.fro),
     fits     |-> move.fits,
     kept     |-> node_is_left =>
                      \A i \in near : sibling.entries[i].key <= LargestKey(move.tow),
     ok       |-> /\ move.ok /\ near # Pairs(sibling)
                  /\ IsUnderfull(node) /\ ~IsUnderfull(sibling)
                  /\ Mandatory(node) < Mandatory(sibling)]

LevelBy(node, sibling, node_is_left, near) ==
    LevelOutcome(node, sibling, node_is_left, near,
                 MoveElements(sibling, near, Back(sibling), node, CopySize(sibling, near)))

(* Once the first m of the sibling have moved, the node is not lighter.    *)
IsLevel(node, sibling, cost) == Mandatory(node) + cost >= Mandatory(sibling) - cost

LevelLeaves(node, sibling, node_is_left) ==
    LET count == Cardinality(Pairs(sibling))
        moved == Min({m \in 1..count :
                    \/ m = count
                    \/ IsLevel(node, sibling,
                               CostOf(sibling, NearPairs(sibling, m, node_is_left)))})
    IN  LevelBy(node, sibling, node_is_left, NearPairs(sibling, moved, node_is_left))
-----------------------------------------------------------------------------
(* dump_entries_since_time(): what a backfill sends of a leaf, in order.   *)
(* An entry without a timestamp is reported with the last one seen.        *)

Older(n, minimum_tstamp) == {i \in 1..n.cut : n.entries[i].ts < minimum_tstamp}

(* As if some timestamp, however new, were enough.                         *)
LostDeletionsMutant(n, minimum_tstamp) == n.cut = 0

(* There is no stamped entry that is older, so deletions may be missing:   *)
(* the range of the leaf is to be deleted first.                           *)
LostDeletions(n, minimum_tstamp) == Older(n, minimum_tstamp) = {}

DumpEntriesSinceTime(n, minimum_tstamp, maximum_existing_tstamp) ==
    LET lost      == LostDeletions(n, minimum_tstamp)
        stop      == Min({Len(n.entries)} \cup {i - 1 : i \in Older(n, minimum_tstamp)})
        TimeOf(i) == IF n.cut = 0 THEN maximum_existing_tstamp
                     ELSE n.entries[IF i <= n.cut THEN i ELSE n.cut].ts
        dumped    == [i \in 1..stop |-> [n.entries[i] EXCEPT !.ts = TimeOf(i)]]
    IN  [lost_deletions |-> lost,
         deletions |-> IF lost THEN <<>> ELSE SelectSeq(dumped, IsDeletion),
         pairs     |-> SelectSeq(dumped, IsLive)]
=============================================================================
