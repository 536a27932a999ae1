------------------------------ MODULE MCSerializer -----------------------------
(***************************************************************************)
(* The log serializer: metablocks, LBA and data blocks, each with a small  *)
(* instance.  They share no state: a behaviour is of the one that          *)
(* `scenario' names.  DataBlocks has four scenarios, because a reader, a   *)
(* crash, a deletion and a file that shrinks are too many at once.         *)
(***************************************************************************)
EXTENDS MetablockManager, LbaList, DataBlocks

CONSTANT Scenarios

VARIABLE scenario

ASSUME ScenariosAssumption ==
  Scenarios \subseteq {"metablock", "lba", "reader", "crash", "delete", "shrink"}

\* a database in which block 0 has been written often enough for its shard to
\* want a garbage collection
FilledBefore == <<0, 1, 0, 0, 0>>
\* and one in which both shards want one
BothBefore == <<0, 0, 0, 0, 1, 1, 1, 1, 0>>

serVars == <<scenario, mbVars, lbaVars, dVars>>

SerInit ==
  /\ scenario \in Scenarios /\ MbInit /\ LbaInit /\ DInit
  /\ dM.pinned <=> scenario # "shrink"

NotCollecting == dGc' = [g \in Collectors |-> NoCollector]

SerNext ==
  /\ UNCHANGED scenario
  /\ \/ scenario = "metablock" /\ MbNext /\ UNCHANGED <<lbaVars, dVars>>
     \/ scenario = "lba" /\ LbaNext /\ UNCHANGED <<mbVars, dVars>>
     \/ scenario = "reader" /\ DNext /\ dCrashes' = 0 /\ dDeletes' = 0
        /\ UNCHANGED <<mbVars, lbaVars>>
     \/ scenario = "crash" /\ DNext /\ dReader' = NoReader /\ dDeletes' = 0
        /\ UNCHANGED <<mbVars, lbaVars>>
     \/ scenario = "delete" /\ DNext /\ dReader' = NoReader /\ dCrashes' = 0 /\ dVersion' <= 1
        /\ UNCHANGED <<mbVars, lbaVars>>
     \/ scenario = "shrink" /\ DNext /\ dReader' = NoReader /\ dCrashes' = 0 /\ NotCollecting
        /\ UNCHANGED <<mbVars, lbaVars>>

SerSpec == SerInit /\ [][SerNext]_serVars
================================================================================
