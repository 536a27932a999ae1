------------------------------- MODULE Registrar -------------------------------
(***************************************************************************)
(* clustering/generic/registrar.hpp with registrant.hpp: a registrant tells*)
(* the registrar of another server that it exists and, when destroyed, that*)
(* it is gone.  The two messages may overtake each other, and both are lost*)
(* when the connection breaks.                                             *)
(*                                                                         *)
(* What runs at the registrar takes its mutex in order of arrival: rgMutex *)
(* holds the handlers <<"create", r>>, <<"delete", r>> and the coroutine of*)
(* registration_destruction_pool, <<"end", r>>; the first has the mutex.   *)
(***************************************************************************)
EXTENDS Naturals, Sequences, FiniteSets

CONSTANTS RgIds,        \* registration_id_t's of the registrants of one peer
          RgMaxConns    \* bound: how many connections to the peer there are

ASSUME RgAssumption == RgMaxConns \in Nat \ {0}

VARIABLES
    rgConn,     \* the connection to the peer: how many there were, and its state
    rgClient,   \* the registrants, and over which connection they registered
    rgNet,      \* messages on their way
    rgMutex, rgPool,
    rgMap,      \* registrations: "cond" is a cond_t, "pulsed" one that is pulsed
    rgReg,      \* what became of each registration
    rgFailed    \* a guarantee() did not hold

rgVars == <<rgConn, rgClient, rgNet, rgMutex, rgPool, rgMap, rgReg, rgFailed>>

RgInit ==
    /\ rgConn = [n |-> 1, st |-> "up"]
    /\ rgClient = [r \in RgIds |-> [st |-> "unborn", conn |-> 0]]
    /\ rgNet = {} /\ rgMutex = <<>> /\ rgPool = <<>>
    /\ rgMap = [r \in RgIds |-> "absent"]
    /\ rgReg = [r \in RgIds |-> "none"]
    /\ rgFailed = FALSE

Sent(m) == rgNet' = IF rgConn.st = "up" THEN rgNet \cup {m} ELSE rgNet

\* registrant_t(), while the directory shows the registrar
Register(r) ==
    /\ rgClient[r].st = "unborn" /\ rgConn.st = "up"
    /\ rgClient' = [rgClient EXCEPT ![r] = [st |-> "registered", conn |-> rgConn.n]]
    /\ Sent(<<"create", r>>)
    /\ UNCHANGED <<rgConn, rgMutex, rgPool, rgMap, rgReg, rgFailed>>

\* ~registrant_t(); without a connection send() drops the message
SendDeregisterMessage(r) ==
    /\ rgClient[r].st = "registered"
    /\ rgClient' = [rgClient EXCEPT ![r].st = "gone"]
    /\ Sent(<<"delete", r>>)
    /\ UNCHANGED <<rgConn, rgMutex, rgPool, rgMap, rgReg, rgFailed>>

MailboxReads(m) ==
    /\ rgConn.st = "up" /\ m \in rgNet
    /\ rgNet' = rgNet \ {m}
    /\ rgMutex' = Append(rgMutex, m)
    /\ UNCHANGED <<rgConn, rgClient, rgPool, rgMap, rgReg, rgFailed>>

Has(what, r) == rgMutex # <<>> /\ Head(rgMutex) = <<what, r>>

\* on_create() up to the construction of the registrant, which may wait
OnCreateRegistration(r) ==
    /\ Has("create", r) /\ rgReg[r] = "none"
    /\ IF rgMap[r] = "absent"
       THEN rgReg' = [rgReg EXCEPT ![r] = "building"] /\ UNCHANGED <<rgMutex, rgMap, rgFailed>>
       ELSE /\ rgReg' = [rgReg EXCEPT ![r] = "refused"]
            /\ rgMap' = [rgMap EXCEPT ![r] = "absent"]
            /\ rgMutex' = Tail(rgMutex)
            /\ rgFailed' = (rgFailed \/ rgMap[r] # "null")
    /\ UNCHANGED <<rgConn, rgClient, rgNet, rgPool>>

\* The rest of active_registration_t().  Where the connection is closing already
\* the waiter is pulsed at once and run() is called.
ActiveRegistration(r) ==
    /\ Has("create", r) /\ rgReg[r] = "building"
    /\ rgMap' = [rgMap EXCEPT ![r] = "cond"]
    /\ rgMutex' = Tail(rgMutex)
    /\ IF rgConn.st = "up"
       THEN rgReg' = [rgReg EXCEPT ![r] = "active"] /\ UNCHANGED rgPool
       ELSE rgReg' = [rgReg EXCEPT ![r] = "queued"] /\ rgPool' = Append(rgPool, r)
    /\ UNCHANGED <<rgConn, rgClient, rgNet, rgFailed>>

\* active_registration_t::run(): a signal it waits for is pulsed
RegistrationEnds(r) ==
    IF rgReg[r] = "active"
    THEN rgReg' = [rgReg EXCEPT ![r] = "queued"] /\ rgPool' = Append(rgPool, r)
    ELSE UNCHANGED <<rgReg, rgPool>>

(* Mutant: a deregistration that comes first leaves no NULL.                 *)
OnDeleteRegistrationMutant(r) ==
    /\ Has("delete", r)
    /\ rgMutex' = Tail(rgMutex)
    /\ IF rgMap[r] = "absent" /\ rgReg[r] = "none"
       THEN /\ rgMap' = rgMap
            /\ UNCHANGED <<rgReg, rgPool, rgFailed>>
       ELSE /\ rgMap' = [rgMap EXCEPT ![r] = "pulsed"]
            /\ rgFailed' = (rgFailed \/ rgMap[r] # "cond")
            /\ RegistrationEnds(r)
    /\ UNCHANGED <<rgConn, rgClient, rgNet>>

OnDeleteRegistration(r) ==
    /\ Has("delete", r)
    /\ rgMutex' = Tail(rgMutex)
    /\ IF rgMap[r] = "absent"
       THEN /\ rgMap' = [rgMap EXCEPT ![r] = "null"]
            /\ UNCHANGED <<rgReg, rgPool, rgFailed>>
       ELSE /\ rgMap' = [rgMap EXCEPT ![r] = "pulsed"]
            /\ rgFailed' = (rgFailed \/ rgMap[r] # "cond")
            /\ RegistrationEnds(r)
    /\ UNCHANGED <<rgConn, rgClient, rgNet>>

\* The one worker of registration_destruction_pool calls ~active_registration_t()
DestructionStarts ==
    /\ rgPool # <<>> /\ \A i \in DOMAIN rgMutex : rgMutex[i][1] # "end"
    /\ rgPool' = Tail(rgPool)
    /\ rgMutex' = Append(rgMutex, <<"end", Head(rgPool)>>)
    /\ UNCHANGED <<rgConn, rgClient, rgNet, rgMap, rgReg, rgFailed>>

RegistrationIsDestroyed(r) ==
    /\ Has("end", r)
    /\ rgMutex' = Tail(rgMutex)
    /\ rgMap' = [rgMap EXCEPT ![r] = "absent"]
    /\ rgReg' = [rgReg EXCEPT ![r] = "ended"]
    /\ UNCHANGED <<rgConn, rgClient, rgNet, rgPool, rgFailed>>

\* The connection breaks: what is on its way is lost, every peer_monitor is pulsed
ConnectionBreaks ==
    /\ rgConn.st = "up"
    /\ rgConn' = [rgConn EXCEPT !.st = "closing"]
    /\ rgNet' = {}
    /\ UNCHANGED <<rgClient, rgMutex, rgPool, rgMap, rgReg, rgFailed>>

PeerMonitorPulsed(r) ==
    /\ rgConn.st = "closing" /\ rgReg[r] = "active"
    /\ RegistrationEnds(r)
    /\ UNCHANGED <<rgConn, rgClient, rgNet, rgMutex, rgMap, rgFailed>>

\* ~connection_t() waits for whoever holds a lock of its drainer: the coroutines
\* that handle its messages and the peer_monitors
Drained ==
    /\ rgConn.st = "closing"
    /\ \A i \in DOMAIN rgMutex : rgMutex[i][1] = "end"
    /\ \A r \in RgIds : rgReg[r] \notin {"building", "active", "queued"}

ConnectionIsGone ==
    /\ Drained
    /\ rgConn' = [rgConn EXCEPT !.st = "down"]
    /\ UNCHANGED <<rgClient, rgNet, rgMutex, rgPool, rgMap, rgReg, rgFailed>>

Reconnect ==
    /\ rgConn.st = "down" /\ rgConn.n < RgMaxConns
    /\ rgConn' = [n |-> rgConn.n + 1, st |-> "up"]
    /\ UNCHANGED <<rgClient, rgNet, rgMutex, rgPool, rgMap, rgReg, rgFailed>>

RgNext ==
    \/ \E r \in RgIds :
         \/ Register(r) \/ SendDeregisterMessage(r)
         \/ OnCreateRegistration(r) \/ ActiveRegistration(r) \/ OnDeleteRegistration(r)
         \/ RegistrationIsDestroyed(r) \/ PeerMonitorPulsed(r)
    \/ \E m \in rgNet : MailboxReads(m)
    \/ DestructionStarts \/ ConnectionBreaks \/ ConnectionIsGone \/ Reconnect

RgSpec == RgInit /\ [][RgNext]_rgVars

--------------------------------------------------------------------------------
(* No guarantee() of on_create() or on_delete() fails: what on_create()      *)
(* finds in the map is a NULL, and on_delete() never finds a NULL, nor a     *)
(* cond_t that is pulsed already.                                            *)
RgGuaranteesHold == ~ rgFailed

(* No registration outlives the connection over which it was made, however   *)
(* late its message was handled: there are none when the connection is gone, *)
(* so that a new connection never has a registration nobody will take back.  *)
NoZombies ==
    rgConn.st = "down" => \A r \in RgIds : rgReg[r] \notin {"building", "active", "queued"}

(* When nothing is left to do and the connection stands, the controller has  *)
(* a registrant for every client that registered over this connection, and   *)
(* for nobody who is gone.                                                   *)
RgAgreement ==
    (rgConn.st = "up" /\ rgNet = {} /\ rgMutex = <<>> /\ rgPool = <<>>) =>
        \A r \in RgIds :
            /\ rgClient[r].st = "gone" => rgReg[r] # "active"
            /\ rgClient[r] = [st |-> "registered", conn |-> rgConn.n] => rgReg[r] = "active"

\* No guarantee() of the registrar fails, no registration outlives the
\* connection of its registrant, and once messages have come to rest the
\* registrar has exactly those that still exist.
RgInv == RgGuaranteesHold /\ NoZombies /\ RgAgreement
================================================================================
