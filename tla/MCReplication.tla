--------------------------- MODULE MCReplication ---------------------------
(***************************************************************************)
(* Small instances of Branch and of Backfill for TLC.  The two share no    *)
(* state: a behaviour is of the one that `scenario' names.                 *)
(*                                                                         *)
(* In a backfill the backfiller may run out of units of its semaphore      *)
(* (Keys > MAX_CHUNKS_OUT), the workers may all be busy                    *)
(* (Keys > CHUNK_PROCESSING_CONCURRENCY) and allocations are sent in the   *)
(* middle of it (Keys > ALLOCATION_CHUNK).                                 *)
(***************************************************************************)
EXTENDS Branch, Backfill

CONSTANTS p, a, b, Scenarios

ASSUME ScenariosAssumption == Scenarios \subseteq {"join", "reads", "branch", "backfill"}

VARIABLE scenario

TwoServers == {p, a}
ThreeServers == {p, a, b}

(* Any one, or any two, acknowledgements are enough.                       *)
AnyOneOf(servers) == (SUBSET servers) \ {{}}
AnyTwoOf(servers) == {S \in SUBSET servers : Cardinality(S) >= 2}
OneOfTwo == AnyOneOf(TwoServers)
TwoOfTwo == AnyTwoOf(TwoServers)
TwoOfThree == AnyTwoOf(ThreeServers)

(* The secondaries are interchangeable.                                    *)
Symmetry == {[s \in ThreeServers |-> s],
             [s \in ThreeServers |-> IF s = a THEN b ELSE IF s = b THEN a ELSE s]}

repVars == <<scenario, vars, bfVars>>

RepInit == scenario \in Scenarios /\ Init /\ BfInit

(* "join": servers come and go often, nobody reads and no callback is      *)
(* dropped; "reads": the other way round.                                  *)
RepNext ==
    /\ UNCHANGED scenario
    /\ \/ scenario = "join" /\ Next /\ read' = None
          /\ (\A t \in Timestamps : callback'[t] # "dropped") /\ UNCHANGED bfVars
       \/ scenario = "reads" /\ Next /\ changes' <= 2 /\ UNCHANGED bfVars
          /\ (read' # None => \A t \in Timestamps : callback'[t] # "dropped")
       \/ scenario = "branch" /\ Next /\ UNCHANGED bfVars
       \/ scenario = "backfill" /\ BfNext /\ UNCHANGED vars
          /\ faults'.interrupts + faults'.crashes + faults'.losses <= 2

RepSpec == RepInit /\ [][RepNext]_repVars

(* What must happen to either is disabled in its initial state, so the one *)
(* that does not move is under no obligation.                              *)
RepFairSpec == RepSpec /\ Fairness /\ BfFairness

(* Writes are answered, joiners become readable, mirrors catch up, and     *)
(* backfills and their sessions end.                                       *)
Progress == BranchProgress /\ BackfillProgress
=============================================================================
