----------------------------- MODULE Connectivity ------------------------------
(***************************************************************************)
(* rpc/connectivity/cluster.cc: how the servers of a cluster connect to    *)
(* each other.  Two servers may open TCP connections to each other at the  *)
(* same time; the one with the smaller peer_id_t, the leader, registers a  *)
(* connection first, or drops it if it has one already, and each tells the *)
(* other which servers it knows, to which the other then connects too.     *)
(*                                                                         *)
(* The handshake is over when a TCP connection is in cnTcp.  Each end is   *)
(* in handle(): at "hs" before it has registered, at "reg" once it is in   *)
(* routing_table, at "up" when there is a connection_t, and then "gone".   *)
(***************************************************************************)
EXTENDS Naturals, Sequences, FiniteSets

CONSTANTS CnServers,    \* peer_id_t's, ordered
          CnAddresses,  \* how many addresses each server has
          CnMaxJoins,   \* bound: calls of join() from outside
          CnMaxTcp,     \* bound: TCP connections opened
          CnMaxFaults   \* bound: connections that break and connects that fail

ASSUME CnAssumption ==
    /\ CnServers \subseteq Nat
    /\ CnAddresses \in Nat \ {0} /\ CnMaxJoins \in Nat
    /\ CnMaxTcp \in Nat /\ CnMaxFaults \in Nat

VARIABLES
    cnTcp,      \* who opened it to whom, the stage of each end, the routing
                \* table each end has sent, and whether it is broken
    cnAttempt,  \* attempt_table, with the addresses to try and successful_join
    cnJoins, cnFaults

cnVars == <<cnTcp, cnAttempt, cnJoins, cnFaults>>

NotSent == {}
NoAttempt == [on |-> FALSE, left |-> 0, ok |-> FALSE]
NewAttempt == [on |-> TRUE, left |-> CnAddresses, ok |-> FALSE]

CnInit ==
    /\ cnTcp = <<>>
    /\ cnAttempt = [s \in CnServers |-> [q \in CnServers |-> NoAttempt]]
    /\ cnJoins = 0 /\ cnFaults = 0

Ends(c) == {cnTcp[c].by, cnTcp[c].to}
Other(c, s) == IF s = cnTcp[c].by THEN cnTcp[c].to ELSE cnTcp[c].by
Leader(c) == IF cnTcp[c].by < cnTcp[c].to THEN cnTcp[c].by ELSE cnTcp[c].to

Registered(c, s) == s \in Ends(c) /\ cnTcp[c].st[s] \in {"reg", "up"}
RoutingTable(s) == {s} \cup {Other(c, s) : c \in {d \in DOMAIN cnTcp : Registered(d, s)}}

EndAt(c, s, stage) == [cnTcp EXCEPT ![c].st[s] = stage]

\* join_blocking() for each of the peers, unless there is an attempt already
Joining(s, peers) ==
    [cnAttempt EXCEPT ![s] = [q \in CnServers |->
        IF q \in peers /\ ~ @[q].on THEN NewAttempt ELSE @[q]]]

--------------------------------------------------------------------------------
\* join(), from the command line or for auto_reconnector_t
Join(s, q) ==
    /\ s # q /\ ~ cnAttempt[s][q].on /\ cnJoins < CnMaxJoins
    /\ cnAttempt' = Joining(s, {q})
    /\ cnJoins' = cnJoins + 1
    /\ UNCHANGED <<cnTcp, cnFaults>>

\* connect_to_peer() for the next address, up to the end of the handshake
ConnectToPeer(s, q) ==
    /\ cnAttempt[s][q].on /\ cnAttempt[s][q].left > 0 /\ ~ cnAttempt[s][q].ok
    /\ cnAttempt' = [cnAttempt EXCEPT ![s][q].left = @ - 1]
    /\ \/ /\ Len(cnTcp) < CnMaxTcp
          /\ cnTcp' = Append(cnTcp, [by |-> s, to |-> q, st |-> [e \in {s, q} |-> "hs"],
                                     tab |-> [e \in {s, q} |-> NotSent], broken |-> FALSE])
          /\ UNCHANGED cnFaults
       \/ cnFaults < CnMaxFaults /\ cnFaults' = cnFaults + 1 /\ UNCHANGED cnTcp
    /\ UNCHANGED cnJoins

\* The rest of join_blocking(): every connect_to_peer() has returned
AttemptIsOver(s, q) ==
    /\ cnAttempt[s][q].on /\ (cnAttempt[s][q].left = 0 \/ cnAttempt[s][q].ok)
    /\ \A c \in DOMAIN cnTcp : cnTcp[c].by = s /\ cnTcp[c].to = q => cnTcp[c].st[s] = "gone"
    /\ cnAttempt' = [cnAttempt EXCEPT ![s][q] = NoAttempt]
    /\ UNCHANGED <<cnTcp, cnJoins, cnFaults>>

MayRegister(c, s) ==
    /\ cnTcp[c].st[s] = "hs"
    /\ s # Leader(c) => cnTcp[c].tab[Leader(c)] # NotSent

(* Mutant: the leader does not look for a conflict.                        *)
AddPeerMutant(c, s) ==
    /\ MayRegister(c, s)
    /\ cnTcp' = IF Other(c, s) \in RoutingTable(s) /\ s # Leader(c)
                THEN EndAt(c, s, "gone")
                ELSE [EndAt(c, s, "reg") EXCEPT ![c].tab[s] = RoutingTable(s)]
    /\ UNCHANGED <<cnAttempt, cnJoins, cnFaults>>

\* get_routing_table_to_send_and_add_peer(); a conflict closes the connection.  The
\* follower comes to it when it has the leader's table.
AddPeer(c, s) ==
    /\ MayRegister(c, s)
    /\ cnTcp' = IF Other(c, s) \in RoutingTable(s)
                THEN EndAt(c, s, "gone")
                ELSE [EndAt(c, s, "reg") EXCEPT ![c].tab[s] = RoutingTable(s)]
    /\ UNCHANGED <<cnAttempt, cnJoins, cnFaults>>

\* The other's table has come and our own is sent: unless it is the second success of
\* one attempt, start to connect to the servers we do not know, and be connected
ConnectionIsMade(c, s) ==
    LET q == Other(c, s)
        ours == cnTcp[c].by = s
    IN  /\ cnTcp[c].st[s] = "reg" /\ cnTcp[c].tab[q] # NotSent
        /\ IF ours /\ cnAttempt[s][q].ok
           THEN cnTcp' = EndAt(c, s, "gone") /\ UNCHANGED cnAttempt
           ELSE /\ cnTcp' = EndAt(c, s, "up")
                /\ cnAttempt' = LET joined == Joining(s, cnTcp[c].tab[q] \ RoutingTable(s))
                                IN  IF ours THEN [joined EXCEPT ![s][q].ok = TRUE] ELSE joined
        /\ UNCHANGED <<cnJoins, cnFaults>>

\* handle() returns, whatever it was waiting for: the connection is broken, or the
\* other end closed it.  ~connection_t() drains, and the entry leaves routing_table.
ConnectionIsClosed(c, s) ==
    /\ cnTcp[c].st[s] # "gone"
    /\ cnTcp[c].broken \/ cnTcp[c].st[Other(c, s)] = "gone"
    /\ cnTcp' = EndAt(c, s, "gone")
    /\ UNCHANGED <<cnAttempt, cnJoins, cnFaults>>

\* The network, or a heartbeat timeout
TcpBreaks(c) ==
    /\ ~ cnTcp[c].broken /\ cnFaults < CnMaxFaults
    /\ cnTcp' = [cnTcp EXCEPT ![c].broken = TRUE]
    /\ cnFaults' = cnFaults + 1
    /\ UNCHANGED <<cnAttempt, cnJoins>>

CnNext ==
    \/ \E s, q \in CnServers : Join(s, q) \/ ConnectToPeer(s, q) \/ AttemptIsOver(s, q)
    \/ \E c \in DOMAIN cnTcp :
         \/ TcpBreaks(c)
         \/ \E s \in Ends(c) : AddPeer(c, s) \/ ConnectionIsMade(c, s) \/ ConnectionIsClosed(c, s)

CnSpec == CnInit /\ [][CnNext]_cnVars

--------------------------------------------------------------------------------
(* The follower never finds that it has a connection to the leader: the    *)
(* leader would have dropped this one.  Only after a fault the leader may  *)
(* know that the old connection is broken and the follower not yet.        *)
FollowerHasNoConflict ==
    cnFaults = 0 =>
        \A c \in DOMAIN cnTcp : \A s \in Ends(c) \ {Leader(c)} :
            MayRegister(c, s) => Leader(c) \notin RoutingTable(s)

(* No server has two connections to the same peer in its routing table,    *)
(* which has one entry for both.                                           *)
OneConnectionPerPeer ==
    \A c, d \in DOMAIN cnTcp : (c # d /\ Ends(c) = Ends(d)) =>
        \A s \in Ends(c) : ~ (Registered(c, s) /\ Registered(d, s))

Connected(s, q) ==
    \E c \in DOMAIN cnTcp : Ends(c) = {s, q} /\ \A e \in {s, q} : cnTcp[c].st[e] = "up"

(* Nothing is being connected or closed.                                   *)
CnQuiet ==
    /\ \A c \in DOMAIN cnTcp : \E stage \in {"up", "gone"} : \A s \in Ends(c) : cnTcp[c].st[s] = stage
    /\ \A s, q \in CnServers : cnAttempt[s][q].on => cnAttempt[s][q].ok

(* Without faults everybody ends up connected to everybody: a server that  *)
(* joins one is told of the others, or they of it, even if they join at the*)
(* same time; a connection given up in a conflict leaves another.          *)
MeshIsComplete ==
    (CnQuiet /\ cnFaults = 0) =>
        \A s, q, r \in CnServers : (Cardinality({s, q, r}) = 3 /\ Connected(s, q) /\ Connected(q, r))
                                       => Connected(s, r)

\* Connecting is right at all times: the two ends of a pair keep the same one
\* connection, the follower never has to refuse what the leader registered, and
\* servers that know of each other end up connected.
CnInv == FollowerHasNoConflict /\ OneConnectionPerPeer /\ MeshIsComplete
================================================================================
