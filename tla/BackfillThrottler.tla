--------------------------- MODULE BackfillThrottler ---------------------------
(***************************************************************************)
(* backfill_throttler_t::lock_t                                            *)
(* (src/src/clustering/immediate_consistency/branch/backfill_throttler.cc):*)
(* a backfill takes one of PerPeer places of the peer that it is from, then*)
(* one of Global places of this server, and can be interrupted while it    *)
(* waits for either.  The semaphore of a peer is made when it is first     *)
(* wanted and destroyed with its last user.                                *)
(***************************************************************************)
EXTENDS NewSemaphore

CONSTANTS BtLocks,    \* the lock_ts
          BtPeers,
          PerPeer,    \* PER_PEER_LIMIT
          Global      \* GLOBAL_LIMIT

ASSUME BackfillThrottlerConstants == PerPeer \in Nat \ {0} /\ Global \in Nat \ {0}

VARIABLES
    btLock,     \* where each lock_t is, and its peer
    btGlobal,   \* global_sem
    btSems,     \* peer_sems
    btRefs      \* peer_sems_refcount

btVars == <<btLock, btGlobal, btSems, btRefs>>

Unlocked == [state |-> "none", peer |-> "none"]

BtInit ==
    /\ btLock = [l \in BtLocks |-> Unlocked]
    /\ btGlobal = NewSem(Global)
    /\ btSems = <<>> /\ btRefs = <<>>

With(f, x, v) == [y \in DOMAIN f \cup {x} |-> IF y = x THEN v ELSE f[y]]
Without(f, x) == [y \in DOMAIN f \ {x} |-> f[y]]

\* lock_t() up to the wait for the peer's semaphore
BtStart(l, p) ==
    LET sem == IF p \in DOMAIN btSems THEN btSems[p] ELSE NewSem(PerPeer)
        refs == IF p \in DOMAIN btRefs THEN btRefs[p] ELSE 0
    IN /\ btLock[l].state = "none"
       /\ btLock' = [btLock EXCEPT ![l] = [state |-> "peer", peer |-> p]]
       /\ btSems' = With(btSems, p, SemAdd(sem, l, 1))
       /\ btRefs' = With(btRefs, p, refs + 1)
       /\ UNCHANGED btGlobal

\* that wait is over; on to the global one
BtGotPeer(l) ==
    /\ btLock[l].state = "peer" /\ l \in btSems[btLock[l].peer].held
    /\ btLock' = [btLock EXCEPT ![l].state = "global"]
    /\ btGlobal' = SemAdd(btGlobal, l, 1)
    /\ UNCHANGED <<btSems, btRefs>>

BtGotGlobal(l) ==
    /\ btLock[l].state = "global" /\ l \in btGlobal.held
    /\ btLock' = [btLock EXCEPT ![l].state = "locked"]
    /\ UNCHANGED <<btGlobal, btSems, btRefs>>

(* Mutant: an interrupted lock_t stays in global_sem.                      *)
BtResetMutant(l) ==
    LET p == btLock[l].peer
        gone == btRefs[p] = 1
    IN /\ btGlobal' = IF btLock[l].state = "locked" THEN SemRemove(btGlobal, l) ELSE btGlobal
       /\ btSems' = IF gone THEN Without(btSems, p) ELSE With(btSems, p, SemRemove(btSems[p], l))
       /\ btRefs' = IF gone THEN Without(btRefs, p) ELSE With(btRefs, p, btRefs[p] - 1)
       /\ btLock' = [btLock EXCEPT ![l] = Unlocked]

\* reset(): from the handler of the interruption or from ~lock_t()
BtReset(l) ==
    LET p == btLock[l].peer
        gone == btRefs[p] = 1
    IN /\ btGlobal' = IF l \in DOMAIN btGlobal.count THEN SemRemove(btGlobal, l) ELSE btGlobal
       /\ btSems' = IF gone THEN Without(btSems, p) ELSE With(btSems, p, SemRemove(btSems[p], l))
       /\ btRefs' = IF gone THEN Without(btRefs, p) ELSE With(btRefs, p, btRefs[p] - 1)
       /\ btLock' = [btLock EXCEPT ![l] = Unlocked]

\* wait_interruptible() throws whenever the interruptor is pulsed, even when
\* the semaphore has just been acquired
BtInterrupt(l) == btLock[l].state \in {"peer", "global"} /\ BtReset(l)
BtUnlock(l) == btLock[l].state = "locked" /\ BtReset(l)

BtNext ==
    \E l \in BtLocks :
        \/ \E p \in BtPeers : BtStart(l, p)
        \/ BtGotPeer(l) \/ BtGotGlobal(l) \/ BtInterrupt(l) \/ BtUnlock(l)

BtSpec == BtInit /\ [][BtNext]_btVars

-----------------------------------------------------------------------------
LocksOf(p) == {l \in BtLocks : btLock[l].peer = p}
InState(st) == {l \in BtLocks : btLock[l].state = st}

\* The type invariant of the throttler: there is a semaphore and a count for
\* exactly the peers that some lock_t is of.
BtTypeOK ==
    /\ \A l \in BtLocks : btLock[l].state \in {"none", "peer", "global", "locked"}
    /\ DOMAIN btSems = {btLock[l].peer : l \in BtLocks \ InState("none")}
    /\ DOMAIN btRefs = DOMAIN btSems
    /\ \A p \in DOMAIN btRefs : btRefs[p] = Cardinality(LocksOf(p))

\* The limits hold, and the semaphores know of exactly the lock_ts that use
\* them: one that was interrupted leaves nothing behind, and a semaphore is
\* not destroyed under anybody's feet (~new_semaphore_t's guarantees).
BtLimits ==
    /\ Cardinality(InState("locked")) <= Global
    /\ DOMAIN btGlobal.count = InState("global") \cup InState("locked")
    /\ \A p \in DOMAIN btSems :
        /\ Cardinality(LocksOf(p) \cap InState("locked")) <= PerPeer
        /\ DOMAIN btSems[p].count = LocksOf(p)

\* "Acquire first the peer semaphore and then the global one. That makes sure
\* that we don't lock out backfills on other peers": who waits for a global
\* place waits for Global others that have one and wait for nothing, who waits
\* for a place of its peer waits for PerPeer others of that peer that have one.
BtNoLockout ==
    /\ \A l \in InState("global") : l \notin btGlobal.held =>
        /\ Cardinality(btGlobal.held) = Global
        /\ \A h \in btGlobal.held : h \in btSems[btLock[h].peer].held
    /\ \A l \in InState("peer") : l \notin btSems[btLock[l].peer].held =>
        /\ Cardinality(btSems[btLock[l].peer].held) = PerPeer
        /\ btSems[btLock[l].peer].held \subseteq LocksOf(btLock[l].peer)

\* The throttler is right at all times: the limits hold, a lock_t that gave up
\* has left nothing behind, and backfills from one peer do not keep those from
\* another waiting.
BtInv == BtTypeOK /\ BtLimits /\ BtNoLockout
===============================================================================
