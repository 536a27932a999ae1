------------------------------- MODULE Heartbeat -------------------------------
(***************************************************************************)
(* heartbeat_manager_t of rpc/connectivity/cluster.cc at both ends of a    *)
(* connection.  Time goes by in rounds of HEARTBEAT_INTERVAL_MS: in each   *)
(* the timers of both ends ring once, in either order and at any point     *)
(* between what else happens.  What an end writes is on its way for at most*)
(* HbMaxDelay rounds, until the connection falls silent.                   *)
(***************************************************************************)
EXTENDS Naturals

CONSTANTS HbMaxDelay,                 \* rounds a message is on its way at most
          HEARTBEAT_TIMEOUT_INTERVALS

ASSUME HbAssumption == HbMaxDelay \in Nat /\ HEARTBEAT_TIMEOUT_INTERVALS \in Nat

HbEnds == {1, 2}

VARIABLES
    hbEnd,    \* read_done, write_done, intervals_since_last_read_done, whether the
              \* timer rang in this round, whether it killed the connection, and
              \* how often it rang since something was read
    hbNet,    \* what is on its way to each end, by age
    hbSilent  \* nothing arrives any more

hbVars == <<hbEnd, hbNet, hbSilent>>

HbInit ==
    /\ hbEnd = [e \in HbEnds |-> [read |-> FALSE, write |-> FALSE, since |-> 0,
                                  rang |-> FALSE, killed |-> FALSE, quiet |-> 0]]
    /\ hbNet = [e \in HbEnds |-> {}]
    /\ hbSilent = FALSE

\* What an end writes is new, and is lost when the connection is silent
SendMessage(e) == hbNet' = IF hbSilent THEN hbNet ELSE [hbNet EXCEPT ![3 - e] = @ \cup {0}]

\* A message of the application, which calls keepalive_write()
AppWrites(e) ==
    /\ ~ hbEnd[e].killed
    /\ hbEnd' = [hbEnd EXCEPT ![e].write = TRUE]
    /\ SendMessage(e)
    /\ UNCHANGED hbSilent

\* keepalive_read(): TCP delivers the oldest first
KeepaliveRead(e) ==
    /\ ~ hbEnd[e].killed /\ hbNet[e] # {}
    /\ hbNet' = [hbNet EXCEPT ![e] = @ \ {CHOOSE a \in @ : \A b \in @ : a >= b}]
    /\ hbEnd' = [hbEnd EXCEPT ![e].read = TRUE, ![e].quiet = 0]
    /\ UNCHANGED hbSilent

(* Mutant: write_done is not reset.                                        *)
OnRingMutant(e) ==
    /\ ~ hbEnd[e].rang /\ ~ hbEnd[e].killed
    /\ IF hbEnd[e].since > HEARTBEAT_TIMEOUT_INTERVALS
       THEN hbEnd' = [hbEnd EXCEPT ![e].killed = TRUE] /\ UNCHANGED hbNet
       ELSE /\ hbEnd' = [hbEnd EXCEPT ![e].rang = TRUE, ![e].read = FALSE,
                                      ![e].since = IF hbEnd[e].read THEN 0 ELSE @ + 1,
                                      ![e].quiet = @ + 1]
            /\ IF hbEnd[e].write THEN UNCHANGED hbNet ELSE SendMessage(e)
    /\ UNCHANGED hbSilent

\* on_ring().  The heartbeat it sends sets write_done when it is written, after the
\* reset: it is what the next ring finds.
OnRing(e) ==
    /\ ~ hbEnd[e].rang /\ ~ hbEnd[e].killed
    /\ IF hbEnd[e].since > HEARTBEAT_TIMEOUT_INTERVALS
       THEN hbEnd' = [hbEnd EXCEPT ![e].killed = TRUE] /\ UNCHANGED hbNet
       ELSE /\ hbEnd' = [hbEnd EXCEPT ![e].rang = TRUE, ![e].read = FALSE,
                                      ![e].write = ~ hbEnd[e].write,
                                      ![e].since = IF hbEnd[e].read THEN 0 ELSE @ + 1,
                                      ![e].quiet = @ + 1]
            /\ IF hbEnd[e].write THEN UNCHANGED hbNet ELSE SendMessage(e)
    /\ UNCHANGED hbSilent

NextRound ==
    /\ \A e \in HbEnds : hbEnd[e].rang \/ hbEnd[e].killed
    /\ \A e \in HbEnds : hbEnd[e].killed \/ \A a \in hbNet[e] : a < HbMaxDelay
    /\ hbEnd' = [e \in HbEnds |-> [hbEnd[e] EXCEPT !.rang = FALSE]]
    /\ hbNet' = [e \in HbEnds |-> {a + 1 : a \in {a \in hbNet[e] : a < HbMaxDelay}}]
    /\ UNCHANGED hbSilent

FallsSilent ==
    /\ ~ hbSilent
    /\ hbSilent' = TRUE /\ hbNet' = [e \in HbEnds |-> {}]
    /\ UNCHANGED hbEnd

HbNext ==
    \/ \E e \in HbEnds : AppWrites(e) \/ KeepaliveRead(e) \/ OnRing(e)
    \/ NextRound \/ FallsSilent

HbSpec == HbInit /\ [][HbNext]_hbVars

--------------------------------------------------------------------------------
(* A connection over which messages arrive in time is never killed: even if*)
(* an end sends a heartbeat only every other round, because it found that  *)
(* it had written, the other hears of it before its timeout.               *)
LiveConnectionsStay == ~ hbSilent => \A e \in HbEnds : ~ hbEnd[e].killed

(* A connection that has fallen silent is killed at the latest when the    *)
(* timer rings HEARTBEAT_TIMEOUT_INTERVALS + 3 times after the last read:  *)
(* one ring finds read_done, and the comparison is a strict one.           *)
SilenceIsNoticed ==
    \A e \in HbEnds : hbEnd[e].killed \/ hbEnd[e].quiet < HEARTBEAT_TIMEOUT_INTERVALS + 3

\* The heartbeat is right at all times: it kills no connection over which
\* messages still come, and every one over which they do not.
HbInv == LiveConnectionsStay /\ SilenceIsNoticed
================================================================================
