------------------------------ MODULE LimitFeed ------------------------------
(***************************************************************************)
(* The changefeed on the first rows of a table in an order                 *)
(* (src/src/rdb_protocol/changefeed.cc): the limit_manager_t that each     *)
(* store keeps for the subscription, and the limit_sub_t that puts         *)
(* together what they send.                                                *)
(*                                                                         *)
(* An item is an entry of the index the rows are ordered by: the mangled   *)
(* primary key, which is also its name, and the key of the index, which is *)
(* the same for all if the rows are ordered by primary key; an item stands *)
(* for its row, and a row of a multi index has several.  The order is      *)
(* ascending; the other is its mirror image.  The messages of a store      *)
(* reach the subscription in the order they were sent (ChangeFeed).        *)
(*                                                                         *)
(* A write holds the superblock or the sindex block until it has           *)
(* committed, and the read that starts the subscription holds it until the *)
(* manager is there, so each of them is one step.                          *)
(***************************************************************************)
EXTENDS Integers, Sequences, SequencesExt, FiniteSets

CONSTANTS LfRows,        \* the rows: each is the set of its items
          LfStoreOf,     \* the store of each item
          LfKeys,        \* keys of the index
          LfKinds,       \* the subscriptions: by primary key or not, whether they squash, the
                         \* table there is, and how much of the bound is used up
          LfLimit,       \* spec.limit
          LfMaxWrites,   \* bound: how many rows are changed
          LfMaxFaults    \* bound: how many reads fail

LfIds == UNION LfRows
LfStores == {LfStoreOf[i] : i \in LfIds}
None == 0                               \* no item, or no key
PrimaryKey == 1                         \* datum_t::null(), which all of them have
Item(id, key) == [id |-> id, key |-> key]
Nothing == Item(None, None)

ASSUME LimitFeedConstants ==
    /\ LfIds \subseteq Nat \ {None} /\ LfKeys \subseteq Nat \ {None} /\ PrimaryKey \in LfKeys
    /\ \A r \in LfRows : \A i, j \in r : LfStoreOf[i] = LfStoreOf[j]
    /\ LfLimit \in Nat \ {0} /\ LfMaxWrites \in Nat /\ LfMaxFaults \in Nat

VARIABLES
    lfKind,      \* what the subscription is
    lfKeyOf,     \* the table: the key of each item
    lfQueue,     \* item_queue of each limit_manager_t
    lfAborted,   \* the stores whose manager is aborted
    lfSent,      \* what each has sent and is not carried out
    lfSub,       \* the limit_sub_t
    lfTold,      \* what somebody who reads the feed takes for the first items
    lfMissed,    \* whether a manager has missed an item
    lfBroken,    \* whether a guarantee failed
    lfWrites, lfFaults

lfVars == <<lfKind, lfKeyOf, lfQueue, lfAborted, lfSent, lfSub, lfTold, lfMissed, lfBroken,
            lfWrites, lfFaults>>

LfInit ==
    /\ lfKind \in LfKinds
    /\ lfKeyOf = lfKind.table
    /\ lfQueue = << >> /\ lfAborted = {} /\ lfSent = [s \in LfStores |-> << >>]
    /\ lfSub = [need |-> -1, got |-> 0, items |-> {}, active |-> {}, queued |-> << >>, exc |-> FALSE]
    /\ lfTold = [items |-> EmptyBag, sane |-> TRUE]
    /\ lfMissed = FALSE /\ lfBroken = FALSE
    /\ lfWrites = LfMaxWrites - lfKind.writes /\ lfFaults = 0

----------------------------------------------------------------------------
(* limit_order_t, item_queue_t.                                            *)

Ids(items) == {i.id : i \in items}

\* whether `a' comes behind `b'
Gt(a, b) == a.key > b.key \/ (a.key = b.key /\ a.id > b.id)

\* in the order of the iterators: the last item comes first
FromWorst(items) ==
    [n \in 1..Cardinality(items) |->
        CHOOSE i \in items : Cardinality({j \in items : Gt(j, i)}) = n - 1]
FirstOf(items, n) == {i \in items : Cardinality({j \in items : Gt(i, j)}) < n}
Worst(items) == CHOOSE i \in items : \A j \in items : ~Gt(j, i)

InIndex(s, keyOf) ==
    {Item(id, keyOf[id]) : id \in {i \in LfIds : LfStoreOf[i] = s /\ keyOf[i] # None}}

----------------------------------------------------------------------------
(* limit_manager_t.                                                        *)

Change(old, new) == [type |-> "change", old |-> old, new |-> new]

\* ref_visitor_t: what is behind an item, by primary key or by the key of the index
Behind(i, start) == IF lfKind.primary THEN i.id > start.id ELSE i.key > start.key

ReadMore(s, keyOf, queue) ==
    FirstOf({i \in InIndex(s, keyOf) : queue = {} \/ Behind(i, Worst(queue))},
         LfLimit - Cardinality(queue))

\* the messages for what left the queue and what came
LimitMessages(deleted, added) ==
    LET both == deleted \cap Ids(added)
        same == SortSeq(SetToSeq(both), <)
        gone == SortSeq(SetToSeq(deleted \ both), <)
        new == FromWorst({i \in added : i.id \notin both})
        at(seq, n, none) == IF n <= Len(seq) THEN seq[n] ELSE none
    IN  [n \in 1..Len(same) |-> Change(same[n], CHOOSE i \in added : i.id = same[n])]
        \o [n \in 1..Max({Len(gone), Len(new)}) |->
               Change(at(gone, n, None), at(new, n, Nothing))]

\* the rest of commit(), with the items that are read
CommitRead(queue, deleted, added, read) ==
    [queue |-> queue \cup read, isFull |-> FALSE,
     msgs |-> LimitMessages(deleted \ Ids(read), added \cup {i \in read : i.id \notin deleted})]

\* Mutant: the subscription is not told of what is truncated
CommitTruncateMutant(s, keyOf, queue, deleted, added) ==
    LET kept == FirstOf(queue, LfLimit) IN
    [CommitRead(kept, deleted, added \cap kept,
                IF Cardinality(kept) < LfLimit THEN ReadMore(s, keyOf, kept) ELSE {})
     EXCEPT !.isFull = Cardinality(kept) = LfLimit]

\* commit(), when what is deleted is out of the queue and what is added is in it
CommitTruncate(s, keyOf, queue, deleted, added) ==
    LET kept == FirstOf(queue, LfLimit) IN
    [CommitRead(kept, deleted \cup Ids((queue \ kept) \ added), added \cap kept,
                IF Cardinality(kept) < LfLimit THEN ReadMore(s, keyOf, kept) ELSE {})
     EXCEPT !.isFull = Cardinality(kept) = LfLimit]

Commit(s, keyOf, deleted, added) ==
    CommitTruncate(s, keyOf, {i \in lfQueue[s] : i.id \notin deleted} \cup added,
                   Ids(lfQueue[s]) \cap deleted, added)

\* an item is added that is in the queue and was not put there by this write
AddsTwice(s, deleted, added) == Ids(added) \cap (Ids(lfQueue[s]) \ deleted) # {}

\* What commit() does not see: an item leaves a full queue and one comes that was behind the last
\* of it; items with the key that it reads behind; an item that is added and then deleted.
Misses(s, keyOf, deleted, added) ==
    LET queue == lfQueue[s]
        kept == {i \in queue : i.id \notin deleted} \cup added
    IN  \/ /\ Cardinality(queue) = LfLimit /\ Ids(queue) \cap deleted # {}
           /\ \E i \in added : Gt(i, Worst(queue))
        \/ /\ ~lfKind.primary /\ kept # {} /\ Cardinality(kept) < LfLimit
           /\ \E i \in InIndex(s, keyOf) \ kept : i.key = Worst(kept).key
        \/ \E i \in added : keyOf[i.id] = None

\* changefeed_limit_subscribe_t: what is read goes to the manager and to the subscription
Subscribe(s) ==
    LET start == FirstOf(InIndex(s, lfKeyOf), LfLimit) IN
    /\ s \notin DOMAIN lfQueue
    /\ lfQueue' = [t \in DOMAIN lfQueue \cup {s} |-> IF t = s THEN start ELSE lfQueue[t]]
    /\ lfSent' = [lfSent EXCEPT ![s] = Append(@, [type |-> "start", items |-> start])]
    /\ UNCHANGED <<lfKind, lfKeyOf, lfAborted, lfSub, lfTold, lfMissed, lfBroken, lfWrites, lfFaults>>

\* foreach_limit(): add() and del() for the changes that a write makes, and commit()
Committed(s, keyOf, deleted, added, result) ==
    \/ /\ s \notin DOMAIN lfQueue \/ s \in lfAborted
       /\ UNCHANGED <<lfQueue, lfAborted, lfSent, lfMissed, lfBroken, lfFaults>>
    \/ /\ s \in DOMAIN lfQueue \ lfAborted
       /\ lfQueue' = [lfQueue EXCEPT ![s] = result.queue]
       /\ lfSent' = [lfSent EXCEPT ![s] = @ \o result.msgs]
       /\ lfBroken' = (lfBroken \/ AddsTwice(s, deleted, added))
       /\ lfMissed' = (lfMissed \/ Misses(s, keyOf, deleted, added))
       /\ UNCHANGED <<lfAborted, lfFaults>>
    \/ /\ s \in DOMAIN lfQueue \ lfAborted /\ ~result.isFull     \* read_more() throws
       /\ lfFaults < LfMaxFaults /\ lfFaults' = lfFaults + 1
       /\ lfAborted' = lfAborted \cup {s}
       /\ lfSent' = [lfSent EXCEPT ![s] = Append(@, [type |-> "stop"])]
       /\ UNCHANGED <<lfQueue, lfMissed, lfBroken>>

CommitSteps(s, keyOf, deleted, added) ==
    /\ lfKeyOf' = keyOf
    /\ Committed(s, keyOf, deleted, added, Commit(s, keyOf, deleted, added))
    /\ UNCHANGED <<lfKind, lfSub, lfTold>>

\* rdb_update_single_sindex(): a row is changed, and with it all its items
UpdateRow(r) ==
    \E new \in [r -> {None} \cup LfKeys] :
        /\ ~lfKind.primary /\ lfWrites < LfMaxWrites /\ lfWrites' = lfWrites + 1
        /\ \E i \in r : new[i] # lfKeyOf[i]
        /\ CommitSteps(LfStoreOf[CHOOSE i \in r : TRUE],
                       [i \in LfIds |-> IF i \in r THEN new[i] ELSE lfKeyOf[i]],
                       {i \in r : lfKeyOf[i] # None},
                       {Item(i, new[i]) : i \in {j \in r : new[j] # None}})

\* rdb_batched_replace(): rows come and go, one after the other, before finish() commits
ReplaceRows(s) ==
    \E batch \in SeqOf({i \in LfIds : LfStoreOf[i] = s}, 3) \ {<< >>} :
        LET toggles(i) == Cardinality({n \in DOMAIN batch : batch[n] = i})
            deletes(i) == toggles(i) > 1 \/ (toggles(i) = 1 /\ lfKeyOf[i] # None)
            adds(i) == toggles(i) > 1 \/ (toggles(i) = 1 /\ lfKeyOf[i] = None)
        IN  /\ lfKind.primary
            /\ lfWrites + Len(batch) <= LfMaxWrites /\ lfWrites' = lfWrites + Len(batch)
            /\ CommitSteps(s, [i \in LfIds |-> IF toggles(i) % 2 = 0 THEN lfKeyOf[i]
                                               ELSE IF lfKeyOf[i] = None THEN PrimaryKey ELSE None],
                           {i \in LfIds : deletes(i)}, {Item(i, PrimaryKey) : i \in {j \in LfIds : adds(j)}})

----------------------------------------------------------------------------
(* limit_sub_t.                                                            *)

\* note_change_impl(), when the old item is out and the new one is in item_queue
NoteActive(items, active, new, oldSend) ==
    LET insert == new # {} /\ active # {} /\ \A i \in new : ~Gt(i, Worst(active))
        grown == IF insert THEN active \cup new ELSE active
        out == IF Cardinality(grown) > LfLimit THEN {Worst(grown)} ELSE {}
        short == Cardinality(grown) < LfLimit
        in == IF short /\ ~insert
              THEN FirstOf({i \in items : grown = {} \/ Gt(i, Worst(grown))}, 1) ELSE {}
        result == (grown \ out) \cup in
    IN  [items |-> items, active |-> result,
         old |-> oldSend \cup out, new |-> in \cup (IF insert THEN new ELSE {}),
         ok |-> /\ out # {} => insert /\ oldSend = {}
                /\ short /\ insert => Cardinality(grown) = Cardinality(items)
                /\ short /\ ~insert /\ Cardinality(grown) < Cardinality(items) => in # {}
                /\ Cardinality(result) \in {LfLimit, Cardinality(items)}]

NoteChangeImpl(items, active, c) ==
    LET old == {i \in items : i.id = c.old}
        new == {c.new} \ {Nothing}
        noted == NoteActive((items \ old) \cup new, active \ old, new, active \cap old)
    IN  [noted EXCEPT !.ok = /\ @ /\ (c.old # None => old # {})
                             /\ Ids(new) \cap Ids(items \ old) = {}]

\* an element reaches the reader: at most one item goes and one comes
Read(told, el) ==
    LET items == (told.items (-) SetToBag(el.old)) (+) SetToBag(el.new) IN
    [items |-> items,
     sane |-> /\ told.sane /\ el.old \subseteq BagToSet(told.items)
              /\ BagCardinality(items) <= LfLimit]

Same(el) == el.old = el.new

\* the elements for `changes', and what they leave of the subscription
Noted(sub, changes) ==
    FoldLeft(LAMBDA acc, c :
                LET noted == NoteChangeImpl(acc.items, acc.active, c)
                IN  [items |-> noted.items, active |-> noted.active, ok |-> acc.ok /\ noted.ok,
                     els |-> Append(acc.els, [old |-> noted.old, new |-> noted.new])],
             [items |-> sub.items, active |-> sub.active, ok |-> TRUE, els |-> << >>], changes)

\* the pairs of apply_queued_changes(): a change of what one of them leads to is added to it
Squashed(els) ==
    FoldLeft(LAMBDA pairs, el :
                LET at == {n \in DOMAIN pairs : pairs[n].new = el.old} IN
                CASE Same(el) -> pairs
                  [] at = {} -> Append(pairs, el)
                  [] OTHER -> [pairs EXCEPT ![Min(at)].new = el.new],
             << >>, els)

Started(sub) == sub.need = sub.got

\* the changes are noted, and the elements pushed
Apply(sub, noted, els) ==
    /\ lfSub' = [sub EXCEPT !.items = noted.items, !.active = noted.active, !.queued = << >>]
    /\ lfTold' = FoldLeft(Read, lfTold, SelectSeq(els, LAMBDA el : ~Same(el)))
    /\ lfBroken' = (lfBroken \/ ~noted.ok)

ApplyAll(sub, noted) == Apply(sub, noted, noted.els)

\* maybe_start(): the first items, and what was queued meanwhile
MaybeStart(sub) ==
    LET told == [lfTold EXCEPT !.items = SetToBag(sub.active)]
        noted == Noted(sub, sub.queued)
    IN  IF ~Started(sub) THEN lfSub' = sub /\ UNCHANGED <<lfTold, lfBroken>>
        ELSE IF lfKind.squash THEN lfSub' = sub /\ lfTold' = told /\ UNCHANGED lfBroken
        ELSE /\ lfSub' = [sub EXCEPT !.items = noted.items, !.active = noted.active,
                                     !.queued = << >>]
             /\ lfTold' = FoldLeft(Read, told, SelectSeq(noted.els, LAMBDA el : ~Same(el)))
             /\ lfBroken' = (lfBroken \/ ~noted.ok)

OnlySubChanges ==
    UNCHANGED <<lfKind, lfKeyOf, lfQueue, lfAborted, lfMissed, lfWrites, lfFaults>>

\* the answer of all stores reaches start_real()
SubStarts ==
    /\ lfSub.need = -1 /\ DOMAIN lfQueue = LfStores
    /\ MaybeStart([lfSub EXCEPT !.need = Cardinality(LfStores)])
    /\ OnlySubChanges /\ UNCHANGED lfSent

Arrives(s, type) ==
    /\ lfSent[s] # << >> /\ Head(lfSent[s]).type = type
    /\ lfSent' = [lfSent EXCEPT ![s] = Tail(@)]
    /\ OnlySubChanges

\* limit_start_t: init()
InitSub(s) ==
    /\ Arrives(s, "start")
    /\ LET items == lfSub.items \cup Head(lfSent[s]).items
       IN  MaybeStart([lfSub EXCEPT !.got = @ + 1, !.items = items,
                                    !.active = FirstOf(items, LfLimit)])

\* limit_change_t: note_change()
NoteChange(s) ==
    /\ Arrives(s, "change")
    /\ IF ~Started(lfSub) \/ lfKind.squash
       THEN /\ lfSub' = [lfSub EXCEPT !.queued = Append(@, Head(lfSent[s]))]
            /\ UNCHANGED <<lfTold, lfBroken>>
       ELSE ApplyAll(lfSub, Noted(lfSub, <<Head(lfSent[s])>>))

\* limit_stop_t
StopSub(s) ==
    /\ Arrives(s, "stop")
    /\ lfSub' = [lfSub EXCEPT !.exc = TRUE]
    /\ UNCHANGED <<lfTold, lfBroken>>

\* get_els() of a subscription that squashes
ApplyQueuedChanges ==
    /\ lfKind.squash /\ Started(lfSub) /\ lfSub.queued # << >>
    /\ LET noted == Noted(lfSub, lfSub.queued) IN Apply(lfSub, noted, Squashed(noted.els))
    /\ OnlySubChanges /\ UNCHANGED lfSent

----------------------------------------------------------------------------
LfNext ==
    /\ ~lfBroken /\ ~lfSub.exc
    /\ \/ SubStarts \/ ApplyQueuedChanges
       \/ \E s \in LfStores : \/ Subscribe(s) \/ ReplaceRows(s)
                              \/ InitSub(s) \/ NoteChange(s) \/ StopSub(s)
       \/ \E r \in LfRows : UpdateRow(r)

LfSpecification == LfInit /\ [][LfNext]_lfVars

----------------------------------------------------------------------------
\* The type invariant
LfTypeOK ==
    /\ lfKeyOf \in [LfIds -> {None} \cup LfKeys]
    /\ lfAborted \subseteq DOMAIN lfQueue /\ DOMAIN lfQueue \subseteq LfStores
    /\ lfSub.got \in 0..Cardinality(LfStores) /\ lfSub.active \subseteq lfSub.items

\* The managers: until one misses an item, each of them has the first items of its store.
ManagersAreRight ==
    ~lfMissed => \A s \in DOMAIN lfQueue \ lfAborted :
                     lfQueue[s] = FirstOf(InIndex(s, lfKeyOf), LfLimit)

\* active_data is the first items of item_queue, and once all messages are carried out item_queue
\* is what the managers have.
SubFollowsManagers ==
    /\ lfSub.active = FirstOf(lfSub.items, LfLimit)
    /\ Started(lfSub) /\ lfSub.queued = << >> /\ (\A s \in LfStores : lfSent[s] = << >>) =>
          lfSub.items = UNION {lfQueue[s] : s \in LfStores}

\* Every element takes away an item that the reader has, or puts in one they do not have, never
\* makes them more than the limit, and together they lead to active_data.
ToldIsActive ==
    Started(lfSub) => lfTold.sane /\ lfTold.items = SetToBag(lfSub.active)

LfInv == LfTypeOK /\ (lfBroken \/ (ManagersAreRight /\ SubFollowsManagers /\ ToldIsActive))
=============================================================================
