----------------------------- MODULE ConnTable ------------------------------
(***************************************************************************)
(* How the demo server finds the connection of a datagram                  *)
(* (dummy_server.py:162-256): CONNECTIONS maps connection ids to           *)
(* connections.  One thread receives a datagram, lets its connection       *)
(* handle it, works off the events of that connection, and then sends what *)
(* any connection has to send.                                             *)
(*                                                                         *)
(* The QUIC library (external) queues an event when it issues or retires a *)
(* connection id.  It issues ids while it sends, so that their events wait *)
(* for the next datagram of that connection, and the table lags behind     *)
(* what the client may use.                                                *)
(***************************************************************************)
EXTENDS Naturals, Sequences, FiniteSets

CONSTANTS Conns,      \* connections
          Cids,       \* connection ids
          Nobody,     \* neither a connection nor a connection id
          MaxQueue    \* bound: events of a connection in its queue

ASSUME NobodyAssumption == Nobody \notin Conns \cup Cids

VARIABLES
  table,      \* CONNECTIONS
  initial,    \* initial[c]: the id the client chose for its first datagram
  issued,     \* issued[c]: the ids c gave out, its host_cid first
  retired,    \* retired[c]: those the client retired
  closed,     \* the connections that are terminated
  events,     \* events[c]: the queue behind next_event
  turn,       \* "receive", "send", or the connection whose events are handled
  alive       \* the serve thread runs

vars == <<table, initial, issued, retired, closed, events, turn, alive>>

Events == [type : {"issued", "retired"}, cid : Cids]
            \cup [type : {"terminated"}, cid : {Nobody}]

Made == {c \in Conns : initial[c] # Nobody}

TypeOK ==
  /\ DOMAIN table \subseteq Cids
  /\ \A x \in DOMAIN table : table[x] \in Made
  /\ initial \in [Conns -> Cids \cup {Nobody}]
  /\ issued \in [Conns -> SUBSET Cids]
  /\ retired \in [Conns -> SUBSET Cids]
  /\ closed \subseteq Made
  /\ events \in [Conns -> Seq(Events)]
  /\ turn \in {"receive", "send"} \cup Conns
  /\ alive \in BOOLEAN

Init ==
  /\ table = << >>
  /\ initial = [c \in Conns |-> Nobody]
  /\ issued = [c \in Conns |-> {}]
  /\ retired = [c \in Conns |-> {}]
  /\ closed = {}
  /\ events = [c \in Conns |-> << >>]
  /\ turn = "receive"
  /\ alive = TRUE

\* Ids are random: nobody chooses one twice.
Unused(x) == \A c \in Conns : x \notin issued[c] /\ x # initial[c]

\* CONNECTIONS[x] = c.
Entered(t, x, c) == [y \in DOMAIN t \cup {x} |-> IF y = x THEN c ELSE t[y]]

Queue(c, e) == events' = [events EXCEPT ![c] = Append(@, e)]

-----------------------------------------------------------------------------
(* handle_udp_msg *)

\* Slip for NewConnection: the server's own id is left out.
NewConnectionOneId(c, d, h) ==
  /\ turn = "receive"
  /\ c \notin Made /\ d # h /\ Unused(d) /\ Unused(h)
  /\ initial' = [initial EXCEPT ![c] = d]
  /\ issued' = [issued EXCEPT ![c] = {h}]
  /\ table' = Entered(table, d, c)
  /\ turn' = c
  /\ UNCHANGED <<retired, closed, events, alive>>

\* An Initial datagram for an unknown id d, past the address check of --retry
\* (199-240).  Datagrams that are answered without a connection (an unknown
\* version, the first one under --retry) and those dropped change nothing.
NewConnection(c, d, h) ==
  /\ turn = "receive"
  /\ c \notin Made /\ d # h /\ Unused(d) /\ Unused(h)
  /\ initial' = [initial EXCEPT ![c] = d]
  /\ issued' = [issued EXCEPT ![c] = {h}]
  /\ table' = Entered(Entered(table, d, c), h, c)
  /\ turn' = c
  /\ UNCHANGED <<retired, closed, events, alive>>

\* A datagram for a known id (199, 239-240) that brings the library nothing to
\* tell the server of.
Datagram(d) ==
  /\ turn = "receive" /\ d \in DOMAIN table
  /\ turn' = table[d]
  /\ UNCHANGED <<table, initial, issued, retired, closed, events, alive>>

\* One with which the client retires x, another id than the one it uses.
RetireDatagram(d, x) ==
  /\ turn = "receive" /\ d \in DOMAIN table
  /\ LET c == table[d]
     IN  /\ c \notin closed /\ Len(events[c]) < MaxQueue
         /\ x \in issued[c] \ retired[c] /\ x # d
         /\ retired' = [retired EXCEPT ![c] = @ \cup {x}]
         /\ Queue(c, [type |-> "retired", cid |-> x])
         /\ turn' = c
  /\ UNCHANGED <<table, initial, issued, closed, alive>>

\* One with which the client closes the connection.
CloseDatagram(d) ==
  /\ turn = "receive" /\ d \in DOMAIN table
  /\ LET c == table[d]
     IN  /\ c \notin closed /\ Len(events[c]) < MaxQueue
         /\ closed' = closed \cup {c}
         /\ Queue(c, [type |-> "terminated", cid |-> Nobody])
         /\ turn' = c
  /\ UNCHANGED <<table, initial, issued, retired, alive>>

-----------------------------------------------------------------------------
(* process_quic_events: next_event until there is none *)

NextEvent(c, type) == turn = c /\ events[c] # << >> /\ Head(events[c]).type = type

Taken(c) == events' = [events EXCEPT ![c] = Tail(@)]

\* Lines 166-167.
Issued(c) ==
  /\ NextEvent(c, "issued") /\ Taken(c)
  /\ table' = Entered(table, Head(events[c]).cid, c)
  /\ UNCHANGED <<initial, issued, retired, closed, turn, alive>>

\* Lines 168-170; without an entry of c for the id the thread ends, with the
\* KeyError or the AssertionError of line 169.
Retired(c) ==
  /\ NextEvent(c, "retired") /\ Taken(c)
  /\ LET x == Head(events[c]).cid
         mine == x \in DOMAIN table /\ table[x] = c
     IN  /\ table' = [y \in DOMAIN table \ (IF mine THEN {x} ELSE {}) |-> table[y]]
         /\ alive' = mine
  /\ UNCHANGED <<initial, issued, retired, closed, turn>>

\* Slip for Terminated: the entries of the connection are removed.
TerminatedCleans(c) ==
  /\ NextEvent(c, "terminated") /\ Taken(c)
  /\ table' = [y \in {x \in DOMAIN table : table[x] # c} |-> table[y]]
  /\ UNCHANGED <<initial, issued, retired, closed, turn, alive>>

\* Lines 171-172: pass.
Terminated(c) ==
  /\ NextEvent(c, "terminated") /\ Taken(c)
  /\ UNCHANGED <<table, initial, issued, retired, closed, turn, alive>>

\* Line 164: no event is left.
EventsDone(c) ==
  /\ turn = c /\ events[c] = << >>
  /\ turn' = "send"
  /\ UNCHANGED <<table, initial, issued, retired, closed, events, alive>>

-----------------------------------------------------------------------------
(* serve: what the connections have to send (253-256) *)

\* The library sends a new id x of c and queues the event.
SendNewId(c, x) ==
  /\ turn = "send"
  /\ c \in Made \ closed /\ Len(events[c]) < MaxQueue
  /\ Unused(x)
  /\ issued' = [issued EXCEPT ![c] = @ \cup {x}]
  /\ Queue(c, [type |-> "issued", cid |-> x])
  /\ UNCHANGED <<table, initial, retired, closed, turn, alive>>

SendDone ==
  /\ turn = "send"
  /\ turn' = "receive"
  /\ UNCHANGED <<table, initial, issued, retired, closed, events, alive>>

Next ==
  alive /\
  \/ \E c \in Conns, d, h \in Cids : NewConnection(c, d, h)
  \/ \E d \in Cids : Datagram(d) \/ CloseDatagram(d)
  \/ \E d, x \in Cids : RetireDatagram(d, x)
  \/ \E c \in Conns : Issued(c) \/ Retired(c) \/ Terminated(c) \/ EventsDone(c)
  \/ \E c \in Conns, x \in Cids : SendNewId(c, x)
  \/ SendDone

Spec == Init /\ [][Next]_vars

-----------------------------------------------------------------------------
(* Properties *)

Awaits(c, type, x) ==
  \E i \in DOMAIN events[c] : events[c][i] = [type |-> type, cid |-> x]

Routed(x, c) == x \in DOMAIN table /\ table[x] = c

\* The table, the queues and the library agree.  An id in use is routed to its
\* connection, or will be once the queue is worked off; a retired one is not
\* routed, or will not be; nothing else is routed but a client's first id, and
\* that for ever: line 172 ignores that a connection is terminated.
TableFollowsQueues ==
  /\ \A c \in Conns : \A x \in issued[c] :
       /\ Routed(x, c) \/ Awaits(c, "issued", x) \/ x \in retired[c]
       /\ x \in retired[c] => ~Routed(x, c) \/ Awaits(c, "retired", x)
  /\ \A x \in DOMAIN table : x \in issued[table[x]] \/ x = initial[table[x]]
  /\ \A c \in Made : Routed(initial[c], c)

\* The assertion of line 169 holds and its lookup succeeds: an id is retired
\* only after it was entered, whatever order datagrams come in.
AssertionHolds == alive
=============================================================================
