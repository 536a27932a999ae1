-------------------------------- MODULE MCCache --------------------------------
(***************************************************************************)
(* The page cache and what it writes through: page transactions and their  *)
(* flushes, the pages of a block, the merger of index writes and the       *)
(* resolver of conflicting disk operations; and, above the cache, the      *)
(* secondary indexes of a store.  Each has a small instance.  They share   *)
(* no state: a behaviour is of the one that `scenario' names.              *)
(***************************************************************************)
EXTENDS PageTxn, CurrentPage, ConflictResolver, Merger, SecondaryIndex

VARIABLE scenario

Scenarios == {"txn", "page", "disk", "merger", "sindexes"}

cacheVars == <<scenario, vars, cpVars, crVars, mgVars, siVars>>

CacheStarts == {SiStart({1, 2}, 1, 1, 1), SiStart({1, 2}, 2, 0, 1), SiStart({1}, 2, 1, 1),
                SiStart({1}, 1, 2, 1)}

CacheInit ==
    /\ scenario \in Scenarios
    /\ Init /\ CpInit /\ CrInit /\ MgInit /\ SiInit
    /\ scenario # "sindexes" =>
          /\ siWrites = SiMaxWrites
          /\ \A k \in DOMAIN siTable : siTable[k] = NoDoc

\* Transactions differ only in what they do
Interchangeable == Permutations(Txns)

CacheNext ==
  /\ UNCHANGED scenario
  /\ \/ scenario = "txn" /\ Next /\ UNCHANGED <<cpVars, crVars, mgVars, siVars>>
     \/ scenario = "page" /\ CpNext /\ UNCHANGED <<vars, crVars, mgVars, siVars>>
     \/ scenario = "disk" /\ CrNext /\ UNCHANGED <<vars, cpVars, mgVars, siVars>>
     \/ scenario = "merger" /\ MgNext /\ UNCHANGED <<vars, cpVars, crVars, siVars>>
     \/ scenario = "sindexes" /\ SiNext /\ UNCHANGED <<vars, cpVars, crVars, mgVars>>

CacheSpec == CacheInit /\ [][CacheNext]_cacheVars
================================================================================
