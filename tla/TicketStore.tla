---------------------------- MODULE TicketStore -----------------------------
(***************************************************************************)
(* The session tickets of the demo servers (dummy_server.py:27-72).  Each  *)
(* server keeps the tickets it issued and, through the MQTT topic          *)
(* "aeacus", those of the others, so that a client can resume anywhere.    *)
(*                                                                         *)
(* Three threads of a server touch its store: the QUIC thread adds and     *)
(* pops, a thread of its own publishes each added ticket, and the MQTT     *)
(* thread adds what arrives.  The broker sends a message to every          *)
(* subscriber, its publisher too, at most once (QoS 0).  A connection that *)
(* breaks takes the messages on it along, and the subscription with it     *)
(* (a clean session): line 68 runs once, when the store is created, and    *)
(* line 30 does not repeat it.                                             *)
(***************************************************************************)
EXTENDS Naturals, FiniteSets

CONSTANTS Servers,    \* the servers that share their tickets
          Tickets,    \* ticket values, each issued once at most
          Flaky,      \* the servers that restart, or lose their broker
          Nobody      \* not a server

ASSUME FlakyAssumption == Flaky \subseteq Servers
ASSUME NobodyAssumption == Nobody \notin Servers

VARIABLES
  held,         \* held[s]: self.tickets of server s
  issuer,       \* issuer[k]: the server that issued ticket k, or Nobody
  publishing,   \* pairs <<s, k>>: a publish_ticket thread that has not run
  inbox,        \* inbox[s]: messages on their way to s
  linked,       \* the servers connected to the broker
  subscribed,   \* the servers the broker sends messages to
  uses          \* uses[s][k]: how often s let a client resume with ticket k

vars == <<held, issuer, publishing, inbox, linked, subscribed, uses>>

TypeOK ==
  /\ held \in [Servers -> SUBSET Tickets]
  /\ issuer \in [Tickets -> Servers \cup {Nobody}]
  /\ publishing \subseteq Servers \X Tickets
  /\ inbox \in [Servers -> SUBSET Tickets]
  /\ linked \subseteq Servers
  /\ subscribed \subseteq linked
  /\ uses \in [Servers -> [Tickets -> Nat]]

Init ==
  /\ held = [s \in Servers |-> {}]
  /\ issuer = [k \in Tickets |-> Nobody]
  /\ publishing = {}
  /\ inbox = [s \in Servers |-> {}]
  /\ linked = Servers
  /\ subscribed = Servers
  /\ uses = [s \in Servers |-> [k \in Tickets |-> 0]]

-----------------------------------------------------------------------------

\* add (47-54): the TLS stack issued ticket k; a thread will publish it.
Add(s, k) ==
  /\ issuer[k] = Nobody
  /\ issuer' = [issuer EXCEPT ![k] = s]
  /\ held' = [held EXCEPT ![s] = @ \cup {k}]
  /\ publishing' = publishing \cup {<<s, k>>}
  /\ UNCHANGED <<inbox, linked, subscribed, uses>>

\* Slip for PublishTicket: the store is asked for the ticket when the thread
\* runs, and a ticket popped meanwhile is not published.
PublishTicketIfHeld(s, k) ==
  /\ <<s, k>> \in publishing
  /\ publishing' = publishing \ {<<s, k>>}
  /\ inbox' = [r \in Servers |->
                 IF s \in linked /\ r \in subscribed /\ k \in held[s]
                 THEN inbox[r] \cup {k} ELSE inbox[r]]
  /\ UNCHANGED <<held, issuer, linked, subscribed, uses>>

\* publish_ticket (48-49), in a thread of its own.  Without a connection a
\* QoS 0 message is dropped.
PublishTicket(s, k) ==
  /\ <<s, k>> \in publishing
  /\ publishing' = publishing \ {<<s, k>>}
  /\ inbox' = [r \in Servers |-> IF s \in linked /\ r \in subscribed
                                 THEN inbox[r] \cup {k} ELSE inbox[r]]
  /\ UNCHANGED <<held, issuer, linked, subscribed, uses>>

\* Slip for OnMessage: what a server receives it publishes like its own.
OnMessageRepublishes(s, k) ==
  /\ k \in inbox[s]
  /\ inbox' = [inbox EXCEPT ![s] = @ \ {k}]
  /\ held' = [held EXCEPT ![s] = @ \cup {k}]
  /\ publishing' = IF k \in held[s] THEN publishing ELSE publishing \cup {<<s, k>>}
  /\ UNCHANGED <<issuer, linked, subscribed, uses>>

\* on_message (61-66), on the MQTT thread.
OnMessage(s, k) ==
  /\ k \in inbox[s]
  /\ inbox' = [inbox EXCEPT ![s] = @ \ {k}]
  /\ held' = [held EXCEPT ![s] = @ \cup {k}]
  /\ UNCHANGED <<issuer, publishing, linked, subscribed, uses>>

\* Slip for Pop: the ticket is looked up and kept.
PopKeeps(s, k) ==
  /\ k \in held[s]
  /\ uses' = [uses EXCEPT ![s][k] = @ + 1]
  /\ UNCHANGED <<held, issuer, publishing, inbox, linked, subscribed>>

\* pop (56-58), for a client that resumes with k.  A client whose ticket is not
\* in the store gets a full handshake, and the store stays as it is.
Pop(s, k) ==
  /\ k \in held[s]
  /\ held' = [held EXCEPT ![s] = @ \ {k}]
  /\ uses' = [uses EXCEPT ![s][k] = @ + 1]
  /\ UNCHANGED <<issuer, publishing, inbox, linked, subscribed>>

\* The connection to the broker breaks.
LinkLost(s) ==
  /\ s \in Flaky \cap linked
  /\ linked' = linked \ {s}
  /\ subscribed' = subscribed \ {s}
  /\ inbox' = [inbox EXCEPT ![s] = {}]
  /\ UNCHANGED <<held, issuer, publishing, uses>>

\* Slip for LinkBack: on_connect subscribes.
LinkBackSubscribes(s) ==
  /\ s \in Servers \ linked
  /\ linked' = linked \cup {s}
  /\ subscribed' = subscribed \cup {s}
  /\ UNCHANGED <<held, issuer, publishing, inbox, uses>>

\* loop_forever (264) connects again; on_connect (30) only logs.
LinkBack(s) ==
  /\ s \in Servers \ linked
  /\ linked' = linked \cup {s}
  /\ UNCHANGED <<held, issuer, publishing, inbox, subscribed, uses>>

\* The process starts over with an empty store and a subscription (31, 43-45).
Restart(s) ==
  /\ s \in Flaky
  /\ held' = [held EXCEPT ![s] = {}]
  /\ publishing' = {p \in publishing : p[1] # s}
  /\ inbox' = [inbox EXCEPT ![s] = {}]
  /\ linked' = linked \cup {s}
  /\ subscribed' = subscribed \cup {s}
  /\ UNCHANGED <<issuer, uses>>

Next ==
  \/ \E s \in Servers, k \in Tickets :
       Add(s, k) \/ PublishTicket(s, k) \/ OnMessage(s, k) \/ Pop(s, k)
  \/ \E s \in Servers : LinkLost(s) \/ LinkBack(s) \/ Restart(s)

\* The threads run, and the broker delivers what its connections carry.
Spec ==
  /\ Init /\ [][Next]_vars
  /\ \A s \in Servers, k \in Tickets :
       WF_vars(PublishTicket(s, k)) /\ WF_vars(OnMessage(s, k))

-----------------------------------------------------------------------------
(* Properties *)

One(b) == IF b THEN 1 ELSE 0

\* The thread that publishes k has not run yet.
Pending(k) == \E r \in Servers : <<r, k>> \in publishing

\* How often a client may yet resume with k at s: a copy in the store, one on
\* its way, and one that the issuer has still to publish each allow it once.
Chances(s, k) ==
  One(k \in held[s]) + One(k \in inbox[s]) + One(Pending(k))

\* What s and its peers can grant in all is fixed when the ticket is issued:
\* two uses at the issuer, whose own message comes back to it, one elsewhere.
UsesAndChances ==
  \A s \in Servers, k \in Tickets :
    uses[s][k] + Chances(s, k) <=
      IF issuer[k] = Nobody THEN 0 ELSE IF issuer[k] = s THEN 2 ELSE 1

\* pop deletes the ticket it returns, and still a ticket is no single-use
\* token.  It serves once at every server and twice at its issuer, if the
\* issuer's own message arrives after the first use; never more often than
\* that, whatever is lost and whoever restarts.
UsesAreBounded ==
  \A s \in Servers, k \in Tickets :
    uses[s][k] <= IF issuer[k] = s THEN 2 ELSE 1

\* A server that lost its broker once learns of no ticket of another server,
\* though it is connected again, until it restarts and has lost them all.
LostSubscriptionStays ==
  [][ \A s \in Servers : s \notin subscribed =>
        /\ s \in subscribed' => held'[s] = {}
        /\ \A k \in held'[s] \ held[s] : issuer'[k] = s ]_vars

\* While no connection breaks, a ticket reaches every server (or has been used
\* there already).
TicketsSpread ==
  \A s, r \in Servers \ Flaky, k \in Tickets :
    issuer[k] = r ~> k \in held[s] \/ uses[s][k] > 0

=============================================================================
