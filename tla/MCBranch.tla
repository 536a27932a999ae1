------------------------------ MODULE MCBranch ------------------------------
(***************************************************************************)
(* Two servers of MCReplication, and the trees that a backfill is read     *)
(* from and applied to.  They share no state either.                       *)
(***************************************************************************)
EXTENDS MCReplication, MCBTree

MCBranchInit ==
    /\ TrInit
    /\ \/ RepInit /\ trPrefill = NearlyFull
       \/ scenario = "trees" /\ Init /\ BfInit

MCBranchNext ==
    \/ RepNext /\ UNCHANGED trVars
    \/ scenario = "trees" /\ TrNext /\ UNCHANGED repVars

MCBranchSpec == MCBranchInit /\ [][MCBranchNext]_<<repVars, trVars>>
=============================================================================
