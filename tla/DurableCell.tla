------------------------------ MODULE DurableCell ------------------------------
(***************************************************************************)
(* What the log serializer takes metablock_manager_t for: one cell on disk *)
(* that always holds the last metablock whose write was reported complete, *)
(* or the one being written when the process stopped.  The metablocks are  *)
(* numbered in the order in which they were handed to write_metablock().   *)
(***************************************************************************)
EXTENDS Naturals

CONSTANT Idle    \* no metablock is being written

VARIABLES
  running,       \* the process runs
  cell,          \* the metablock that a start would find
  incoming       \* the metablock being written, or Idle

cellVars == <<running, cell, incoming>>

CellInit == ~running /\ cell = 0 /\ incoming = Idle

Start == ~running /\ running' /\ UNCHANGED <<cell, incoming>>

Begin ==
  /\ running /\ incoming = Idle
  /\ incoming' \in Nat
  /\ incoming' > cell
  /\ UNCHANGED <<running, cell>>

Complete ==
  /\ running /\ incoming # Idle
  /\ cell' = incoming
  /\ incoming' = Idle
  /\ UNCHANGED running

Stop ==
  /\ running /\ ~running'
  /\ cell' \in {cell} \cup ({incoming} \ {Idle})
  /\ incoming' = Idle

CellNext == Start \/ Begin \/ Complete \/ Stop

CellSpec == CellInit /\ [][CellNext]_cellVars
================================================================================
