------------------------------- MODULE Directory -------------------------------
(***************************************************************************)
(* rpc/directory/write_manager.tcc and read_manager.tcc: how one server's  *)
(* directory entry reaches another.  The writer sends its value to a new   *)
(* connection ('I') and every later value with a fifo token ('U'); the     *)
(* messages may overtake each other.  The value of the writer is the number*)
(* of its changes, which is also its metadata_fifo_source's timestamp.     *)
(*                                                                         *)
(* dyCoros are the reader's coroutines handle_connection() ('I') and       *)
(* propagate_update() ('U') in the order in which they reached its home    *)
(* thread; news that the connection is lost follows in the same order.     *)
(***************************************************************************)
EXTENDS Naturals, FiniteSets, Queues

CONSTANTS DyMaxConns,   \* bound: connections from the writer to the reader
          DyMaxChanges  \* bound: changes of the writer's value

ASSUME DyAssumption == DyMaxConns \in Nat \ {0} /\ DyMaxChanges \in Nat

VARIABLES
    dyConn,     \* the connection: its number and its state
    dyWriter,   \* the writer: its value, and its newest entry in last_connections
    dyNet,      \* messages written, whose coroutine at the reader has not started
    dyCoros,
    dySink,     \* connection_info: in connection_map? fifo_sink's next token,
                \* and the tokens of those who left before their turn
    dyEntry,    \* the writer's entry in the reader's directory, with its connection
    dyFailed    \* a guarantee() did not hold

dyVars == <<dyConn, dyWriter, dyNet, dyCoros, dySink, dyEntry, dyFailed>>

NoEntry == [v |-> 0, conn |-> 0]
NoSink == [known |-> FALSE, next |-> 0, left |-> {}]
Messages == [kind : {"I", "U"}, v : 0 .. DyMaxChanges, conn : 1 .. DyMaxConns]
Stages == {"wait", "drain", "init", "woken", "turn", "yield"}

DyTypeOK ==
    /\ dyConn \in [n : 1 .. DyMaxConns, st : {"up", "closing", "down"}]
    /\ dyWriter \in [v : 0 .. DyMaxChanges, conn : 0 .. DyMaxConns]
    /\ dyNet \subseteq Messages
    /\ dyCoros \in Seq([m : Messages, st : Stages, int : BOOLEAN])
    /\ dySink \in [known : BOOLEAN, next : 0 .. DyMaxChanges + 1, left : SUBSET (1 .. DyMaxChanges)]
    /\ dyEntry \in [v : 0 .. DyMaxChanges, conn : 0 .. DyMaxConns]
    /\ dyFailed \in BOOLEAN

DyInit ==
    /\ dyConn = [n |-> 1, st |-> "up"] /\ dyWriter = [v |-> 0, conn |-> 0]
    /\ dyNet = {} /\ dyCoros = <<>> /\ dySink = NoSink /\ dyEntry = NoEntry
    /\ dyFailed = FALSE

--------------------------------------------------------------------------------
(* The writer.  Sending on a connection that is lost does nothing.         *)

\* The old connection leaves last_connections and the new one enters it
OnConnectionChange ==
    /\ dyConn.st = "up" /\ dyWriter.conn # dyConn.n
    /\ dyWriter' = [dyWriter EXCEPT !.conn = dyConn.n]
    /\ dyNet' = dyNet \cup {[kind |-> "I", v |-> dyWriter.v, conn |-> dyConn.n]}
    /\ UNCHANGED <<dyConn, dyCoros, dySink, dyEntry, dyFailed>>

OnValueChange ==
    /\ dyWriter.v < DyMaxChanges
    /\ dyWriter' = [dyWriter EXCEPT !.v = @ + 1]
    /\ dyNet' = IF dyConn.st = "up" /\ dyWriter.conn = dyConn.n
                THEN dyNet \cup {[kind |-> "U", v |-> dyWriter.v + 1, conn |-> dyConn.n]}
                ELSE dyNet
    /\ UNCHANGED <<dyConn, dyCoros, dySink, dyEntry, dyFailed>>

--------------------------------------------------------------------------------
(* The reader                                                              *)

Coro(m, st) == [m |-> m, st |-> st, int |-> FALSE]
Others(i) == DropAt(dyCoros, i)
At(i, st) == [dyCoros EXCEPT ![i].st = st]

\* An update has left fifo_sink: the next token is the first that did not leave
Passed(sink, t) ==
    IF sink.next # t
    THEN [sink EXCEPT !.left = @ \cup {t}]
    ELSE LET n == CHOOSE k \in t + 1 .. DyMaxChanges + 1 :
                      k \notin sink.left /\ \A j \in t + 1 .. k - 1 : j \in sink.left
         IN  [sink EXCEPT !.next = n, !.left = {j \in @ : j > n}]

\* Where an update stands that has found its connection_info
Joined(m) == IF dySink.next = m.v THEN "yield" ELSE "turn"
UsesSink(c) == c.st \in {"turn", "yield"}
Drains(coros) == ~ \E i \in DOMAIN coros : UsesSink(coros[i])

(* Mutant: the updates that came first are not woken                       *)
HandleConnectionMutant(m) ==
    /\ m.kind = "I"
    /\ dyEntry' = [v |-> m.v, conn |-> m.conn]
    /\ dySink' = [known |-> TRUE, next |-> m.v + 1, left |-> {}]
    /\ dyCoros' = Append(dyCoros, Coro(m, "wait"))

\* handle_connection() up to its wait: it wakes the updates that came before it
HandleConnection(m) ==
    /\ m.kind = "I"
    /\ dyEntry' = [v |-> m.v, conn |-> m.conn]
    /\ dySink' = [known |-> TRUE, next |-> m.v + 1, left |-> {}]
    /\ dyCoros' = Append([i \in DOMAIN dyCoros |->
                             IF dyCoros[i].st = "init" THEN [dyCoros[i] EXCEPT !.st = "woken"]
                                                       ELSE dyCoros[i]],
                         Coro(m, "wait"))

\* propagate_update() up to its first wait
PropagateUpdate(m) ==
    /\ m.kind = "U"
    /\ dyCoros' = Append(dyCoros, Coro(m, IF dySink.known THEN Joined(m) ELSE "init"))
    /\ UNCHANGED <<dySink, dyEntry>>

OnMessage(m) ==
    /\ dyNet' = dyNet \ {m}
    /\ HandleConnection(m) \/ PropagateUpdate(m)
    /\ UNCHANGED <<dyConn, dyWriter, dyFailed>>

UpdateIsWoken(i) ==
    /\ dyCoros[i].st = "woken" /\ ~ dyCoros[i].int
    /\ IF dySink.known
       THEN dyCoros' = At(i, Joined(dyCoros[i].m)) /\ UNCHANGED dyFailed
       ELSE dyCoros' = Others(i) /\ dyFailed' = TRUE
    /\ UNCHANGED <<dyConn, dyWriter, dyNet, dySink, dyEntry>>

(* Mutant: no fifo_sink                                                    *)
UpdateHasItsTurnMutant(i) ==
    /\ dyCoros[i].st = "turn" /\ ~ dyCoros[i].int
    /\ dyCoros' = At(i, "yield")
    /\ UNCHANGED <<dyConn, dyWriter, dyNet, dySink, dyEntry, dyFailed>>

UpdateHasItsTurn(i) ==
    /\ dyCoros[i].st = "turn" /\ ~ dyCoros[i].int /\ dySink.next = dyCoros[i].m.v
    /\ dyCoros' = At(i, "yield")
    /\ UNCHANGED <<dyConn, dyWriter, dyNet, dySink, dyEntry, dyFailed>>

\* After the yield() the update is made, even if the connection is lost by now
UpdateIsMade(i) ==
    /\ dyCoros[i].st = "yield"
    /\ dyEntry' = [v |-> dyCoros[i].m.v, conn |-> dyCoros[i].m.conn]
    /\ dySink' = Passed(dySink, dyCoros[i].m.v)
    /\ dyCoros' = Others(i)
    /\ UNCHANGED <<dyConn, dyWriter, dyNet, dyFailed>>

\* wait_interruptible() throws
UpdateIsInterrupted(i) ==
    /\ dyCoros[i].int /\ dyCoros[i].st \in {"init", "woken", "turn"}
    /\ dySink' = IF dyCoros[i].st = "turn" THEN Passed(dySink, dyCoros[i].m.v) ELSE dySink
    /\ dyCoros' = Others(i)
    /\ UNCHANGED <<dyConn, dyWriter, dyNet, dyEntry, dyFailed>>

\* handle_connection() goes on once the connection is lost: it takes the connection
\* out of the map and, when no update uses connection_info, deletes the entry
ConnectionEnds(i) ==
    /\ dyCoros[i].st = "wait" /\ dyCoros[i].int
    /\ IF Drains(dyCoros)
       THEN dySink' = NoSink /\ dyEntry' = NoEntry /\ dyCoros' = Others(i)
       ELSE /\ dySink' = [dySink EXCEPT !.known = FALSE]
            /\ dyCoros' = At(i, "drain")
            /\ UNCHANGED dyEntry
    /\ UNCHANGED <<dyConn, dyWriter, dyNet, dyFailed>>

EntryIsDeleted(i) ==
    /\ dyCoros[i].st = "drain" /\ Drains(dyCoros)
    /\ dySink' = NoSink /\ dyEntry' = NoEntry /\ dyCoros' = Others(i)
    /\ UNCHANGED <<dyConn, dyWriter, dyNet, dyFailed>>

--------------------------------------------------------------------------------
(* The connection                                                          *)

\* What was not received yet is lost
ConnectionIsLost ==
    /\ dyConn.st = "up"
    /\ dyConn' = [dyConn EXCEPT !.st = "closing"]
    /\ \E received \in SUBSET dyNet : dyNet' = received
    /\ UNCHANGED <<dyWriter, dyCoros, dySink, dyEntry, dyFailed>>

\* The coroutine's interruptor2, a cross_thread_signal_t
InterruptorPulsed(i) ==
    /\ dyConn.st = "closing" /\ ~ dyCoros[i].int /\ \A j \in 1 .. i - 1 : dyCoros[j].int
    /\ dyCoros' = [dyCoros EXCEPT ![i].int = TRUE]
    /\ UNCHANGED <<dyConn, dyWriter, dyNet, dySink, dyEntry, dyFailed>>

\* ~connection_t() waits for every connection_keepalive
ConnectionGoesAway ==
    /\ dyConn.st = "closing" /\ dyNet = {} /\ dyCoros = <<>>
    /\ dyConn' = [dyConn EXCEPT !.st = "down"]
    /\ UNCHANGED <<dyWriter, dyNet, dyCoros, dySink, dyEntry, dyFailed>>

NewConnection ==
    /\ dyConn.st = "down" /\ dyConn.n < DyMaxConns
    /\ dyConn' = [n |-> dyConn.n + 1, st |-> "up"]
    /\ UNCHANGED <<dyWriter, dyNet, dyCoros, dySink, dyEntry, dyFailed>>

DyNext ==
    \/ OnConnectionChange \/ OnValueChange
    \/ \E m \in dyNet : OnMessage(m)
    \/ \E i \in DOMAIN dyCoros :
         \/ UpdateIsWoken(i) \/ UpdateHasItsTurn(i) \/ UpdateIsMade(i) \/ UpdateIsInterrupted(i)
         \/ ConnectionEnds(i) \/ EntryIsDeleted(i) \/ InterruptorPulsed(i)
    \/ ConnectionIsLost \/ ConnectionGoesAway \/ NewConnection

DySpec == DyInit /\ [][DyNext]_dyVars

--------------------------------------------------------------------------------
(* An update that handle_connection() woke, and that is not interrupted,   *)
(* finds its connection still in connection_map: the guarantee() of        *)
(* propagate_update().                                                     *)
WokenFindTheirConnection == ~ dyFailed

(* The directory never shows an older value of a server after a newer one, *)
(* however its messages overtook each other and connections came and went. *)
DirectoryNeverGoesBack ==
    [][(dyEntry # NoEntry /\ dyEntry' # NoEntry) => dyEntry'.v >= dyEntry.v]_dyVars

(* There is an entry only while there is the connection over which it came,*)
(* so that a server that is gone does not stay in the directory.           *)
EntryMeansConnected ==
    dyEntry # NoEntry => dyEntry.conn = dyConn.n /\ dyConn.st # "down"

(* No update is left that could still be made, or waits to be woken.       *)
DyQuiet ==
    /\ dyNet = {} /\ dyWriter.conn = dyConn.n
    /\ \A i \in DOMAIN dyCoros :
         \/ dyCoros[i].st \in {"wait", "init"}
         \/ dyCoros[i].st = "turn" /\ dyCoros[i].m.v # dySink.next

(* When all messages are handled and the connection stands, the reader     *)
(* shows the writer's value: no update is lost or left waiting.            *)
DirectoryIsUpToDate ==
    (dyConn.st = "up" /\ DyQuiet) =>
        dyEntry = [v |-> dyWriter.v, conn |-> dyConn.n] /\ Len(dyCoros) = 1

\* The directory is right at all times: an entry is of a connected peer, it
\* shows its newest value once messages have come to rest, and whoever wakes up
\* to change it still has its connection.
DyInv == DyTypeOK /\ WokenFindTheirConnection /\ EntryMeansConnected /\ DirectoryIsUpToDate
================================================================================
