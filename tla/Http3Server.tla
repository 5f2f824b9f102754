---------------------------- MODULE Http3Server -----------------------------
(***************************************************************************)
(* The handlers of the HTTP/3 server (http3_server.py:41-461).  A stream's *)
(* first headers make a handler, of HTTP, WebSocket or WebTransport, and a *)
(* task that runs the ASGI application with it.  Later events of the       *)
(* stream go to the handler, which queues a message for the application,   *)
(* or holds the event back until the application accepts the session.      *)
(*                                                                         *)
(* The application is any that follows ASGI; it may fail at every step.    *)
(* Its calls interleave with the events of the connection, which the event *)
(* loop hands over one at a time.  The QUIC and WebSocket libraries are    *)
(* external; a WebSocket message comes in one piece.  Http3Client composes *)
(* these actions with the clients.                                         *)
(***************************************************************************)
EXTENDS Naturals, FiniteSets, SequencesExt

CONSTANT Streams      \* stream ids

VARIABLES
  kind,        \* kind[s]: the handler of s in _handlers, or "none"
  app,         \* app[s]: the task of the handler
  opened,      \* opened[s]: events need not wait: accepted, or plain HTTP
  closed,      \* closed[s]: self.closed
  backlog,     \* backlog[s]: self.http_event_queue
  inbox,       \* inbox[s]: self.queue
  arrived,     \* arrived[s]: the events of s so far, in order
  given,       \* given[s]: the messages the application took
  wire         \* wire[s]: what the server sent on s, in order

serverVars == <<kind, app, opened, closed, backlog, inbox, arrived, given, wire>>

Kinds == {"http", "websocket", "webtransport"}

\* An event: part of a body, WebSocket text or closing frame, the end of a
\* stream without data, a datagram, data of a stream of the session, headers.
\* `last` is stream_ended.  Events of a stream are numbered.
EventTypes == [http         |-> {"body", "headers"},
               websocket    |-> {"text", "closing", "end"},
               webtransport |-> {"datagram", "stream", "end"}]

Events == [type : UNION {EventTypes[k] : k \in Kinds}, n : Nat, last : BOOLEAN]

\* The events that make a message for the application: the end of a WebSocket
\* stream or of a session makes none.
MessageEvents == {e \in Events : e.type # "end"}

Connect == [type |-> "connect", n |-> 0, last |-> FALSE]

\* What is sent on a stream: headers that accept or refuse, data, data or
\* nothing with the end of the stream, and the promise of a push stream.
Contents == {"headers", "refusal", "data", "fin"}

Sendables == Contents \cup Streams

ASSUME StreamsAssumption == IsFiniteSet(Streams) /\ Streams \cap Contents = {}

\* The items of seq that are in S, in their order: SelectSeq in first-order form.
Only(seq, S) ==
  LET upTo[n \in 0 .. Len(seq)] ==
        IF n = 0 THEN << >>
        ELSE IF seq[n] \in S THEN Append(upTo[n - 1], seq[n])
        ELSE upTo[n - 1]
  IN  upTo[Len(seq)]

ServerTypeOK ==
  /\ kind \in [Streams -> Kinds \cup {"none"}]
  /\ app \in [Streams -> {"none", "scheduled", "running", "ended"}]
  /\ opened \in [Streams -> BOOLEAN]
  /\ closed \in [Streams -> BOOLEAN]
  /\ backlog \in [Streams -> Seq(Events)]
  /\ inbox \in [Streams -> Seq(Events \cup {Connect})]
  /\ arrived \in [Streams -> Seq(Events)]
  /\ given \in [Streams -> Seq(Events \cup {Connect})]
  /\ wire \in [Streams -> Seq(Sendables)]
  /\ \A s \in Streams : (kind[s] = "none") = (app[s] = "none")

ServerInit ==
  /\ kind = [s \in Streams |-> "none"]
  /\ app = [s \in Streams |-> "none"]
  /\ opened = [s \in Streams |-> FALSE]
  /\ closed = [s \in Streams |-> FALSE]
  /\ backlog = [s \in Streams |-> << >>]
  /\ inbox = [s \in Streams |-> << >>]
  /\ arrived = [s \in Streams |-> << >>]
  /\ given = [s \in Streams |-> << >>]
  /\ wire = [s \in Streams |-> << >>]

-----------------------------------------------------------------------------
(* HttpServerProtocol *)

\* The headers of a request as an event: they are one when they end the stream,
\* for the handler then queues the end of the request (61-62).
Headers(ended) ==
  IF ended THEN << [type |-> "headers", n |-> 1, last |-> TRUE] >> ELSE << >>

\* A handler of kind k for s, and a task that will run the application
\* (362-434).  Only HTTP looks at stream_ended.
NewHandler(s, k, ended) ==
  /\ kind' = [kind EXCEPT ![s] = k]
  /\ app' = [app EXCEPT ![s] = "scheduled"]
  /\ opened' = [opened EXCEPT ![s] = (k = "http")]
  /\ arrived' = [arrived EXCEPT ![s] = Headers(ended)]
  /\ inbox' = [inbox EXCEPT ![s] = Headers(ended)]

\* Headers on a stream without a handler.
Request(s, k, ended) ==
  /\ kind[s] = "none"
  /\ ended => k = "http"
  /\ NewHandler(s, k, ended)
  /\ UNCHANGED <<closed, backlog, given, wire>>

\* The application of a websocket, and of a session, is told of the connection
\* first (167, 270).
AppStarts(s) ==
  /\ app[s] = "scheduled"
  /\ app' = [app EXCEPT ![s] = "running"]
  /\ inbox' = [inbox EXCEPT ![s] = IF kind[s] = "http" THEN @ ELSE Append(@, Connect)]
  /\ UNCHANGED <<kind, opened, closed, backlog, arrived, given, wire>>

\* http_event_received of the handlers (64-76, 146-164, 246-267).
Handle(s, e) ==
  /\ inbox' = [inbox EXCEPT ![s] =
                 IF ~closed[s] /\ opened[s] /\ e \in MessageEvents THEN Append(@, e) ELSE @]
  /\ backlog' = [backlog EXCEPT ![s] =
                   IF ~closed[s] /\ ~opened[s] THEN Append(@, e) ELSE @]

\* Data, trailers or a datagram for a handler (435-446).  Trailers that do not
\* end the stream change nothing (the end then comes as data without bytes), and
\* headers change nothing for the other handlers.
Event(s, type, last) ==
  /\ kind[s] # "none" /\ type \in EventTypes[kind[s]]
  /\ LET e == [type |-> type, n |-> Len(arrived[s]) + 1, last |-> last]
     IN  /\ arrived' = [arrived EXCEPT ![s] = Append(@, e)]
         /\ Handle(s, e)
  /\ UNCHANGED <<kind, app, opened, closed, given, wire>>

-----------------------------------------------------------------------------
(* The application: receive and send of the handlers *)

AppReceives(s) ==
  /\ app[s] = "running" /\ inbox[s] # << >>
  /\ inbox' = [inbox EXCEPT ![s] = Tail(@)]
  /\ given' = [given EXCEPT ![s] = Append(@, Head(inbox[s]))]
  /\ UNCHANGED <<kind, app, opened, closed, backlog, arrived, wire>>

Sends(s, items) == wire' = [wire EXCEPT ![s] = @ \o items]

\* Slip for Accept: the backlog is consumed from its end.
AcceptBackwards(s) ==
  /\ app[s] = "running" /\ kind[s] # "http" /\ ~opened[s] /\ ~closed[s]
  /\ opened' = [opened EXCEPT ![s] = TRUE]
  /\ Sends(s, <<"headers">>)
  /\ inbox' = [inbox EXCEPT ![s] = @ \o Reverse(Only(backlog[s], MessageEvents))]
  /\ backlog' = [backlog EXCEPT ![s] = << >>]
  /\ UNCHANGED <<kind, app, closed, arrived, given>>

\* websocket.accept, webtransport.accept (181-197, 285-298): the events held
\* back are handled now, before any other.
Accept(s) ==
  /\ app[s] = "running" /\ kind[s] # "http" /\ ~opened[s] /\ ~closed[s]
  /\ opened' = [opened EXCEPT ![s] = TRUE]
  /\ Sends(s, <<"headers">>)
  /\ inbox' = [inbox EXCEPT ![s] = @ \o Only(backlog[s], MessageEvents)]
  /\ backlog' = [backlog EXCEPT ![s] = << >>]
  /\ UNCHANGED <<kind, app, closed, arrived, given>>

\* Slip for Closing: a refusal ends the stream of a websocket too.
ClosingAlways(s) == IF opened[s] THEN <<"fin">> ELSE <<"refusal", "fin">>

\* What closing a session sends (199-208 and 219-222, 299-304 and 312-315).  A
\* websocket that was not accepted gets the refusal, and, there being no data,
\* line 219 leaves its stream open.
Closing(s) ==
  IF opened[s] THEN <<"fin">>
  ELSE IF kind[s] = "websocket" THEN <<"refusal">>
  ELSE <<"refusal", "fin">>

\* websocket.close, webtransport.close.
Close(s) ==
  /\ app[s] = "running" /\ kind[s] # "http" /\ ~closed[s]
  /\ Sends(s, Closing(s))
  /\ closed' = [closed EXCEPT ![s] = TRUE]
  /\ UNCHANGED <<kind, app, opened, backlog, inbox, arrived, given>>

\* wsproto has seen the client's closing frame: it refuses to send a message.
ClosedByClient(s) ==
  \E m \in ToSet(inbox[s]) \cup ToSet(given[s]) : m.type = "closing"

\* websocket.send (209-217).  webtransport.datagram.send and stream.send
\* (305-310) use other streams.
SendMessage(s) ==
  /\ app[s] = "running" /\ kind[s] = "websocket" /\ opened[s] /\ ~closed[s]
  /\ ~ClosedByClient(s)
  /\ Sends(s, <<"data">>)
  /\ UNCHANGED <<kind, app, opened, closed, backlog, inbox, arrived, given>>

\* http.response.start and http.response.body (85-100), in their order.
Respond(s, item) ==
  /\ app[s] = "running" /\ kind[s] = "http"
  /\ item \in {"headers", "data", "fin"}
  /\ item = "headers" <=> "headers" \notin ToSet(wire[s])
  /\ "fin" \notin ToSet(wire[s])
  /\ Sends(s, <<item>>)
  /\ UNCHANGED <<kind, app, opened, closed, backlog, inbox, arrived, given>>

\* http.response.push (101-124): the promise goes out on s; p is a push stream
\* of the server's, whose fake request is whole.  Without a push id the call
\* has no effect.
Push(s, p) ==
  /\ app[s] = "running" /\ kind[s] = "http" /\ "fin" \notin ToSet(wire[s])
  /\ kind[p] = "none"
  /\ NewHandler(p, "http", TRUE)
  /\ Sends(s, <<p>>)
  /\ UNCHANGED <<closed, backlog, given>>

\* Slips for AppEnds: whether the session is closed already is not asked; the
\* handler is forgotten.
AppEndsAgain(s) ==
  /\ app[s] = "running"
  /\ app' = [app EXCEPT ![s] = "ended"]
  /\ Sends(s, IF kind[s] # "http" THEN Closing(s) ELSE << >>)
  /\ closed' = [closed EXCEPT ![s] = @ \/ kind[s] # "http"]
  /\ UNCHANGED <<kind, opened, backlog, inbox, arrived, given>>

AppEndsForgotten(s) ==
  /\ app[s] = "running"
  /\ app' = [app EXCEPT ![s] = "none"]
  /\ UNCHANGED <<kind, opened, closed, backlog, inbox, arrived, given, wire>>

\* The application returns or fails, at any point; a message it cannot send to
\* a closing websocket makes it fail.  `finally` closes a session that is not
\* closed (169-173, 272-276); nothing ends an HTTP response.
AppEnds(s) ==
  /\ app[s] = "running"
  /\ app' = [app EXCEPT ![s] = "ended"]
  /\ LET closes == kind[s] # "http" /\ ~closed[s]
     IN  /\ Sends(s, IF closes THEN Closing(s) ELSE << >>)
         /\ closed' = [closed EXCEPT ![s] = @ \/ closes]
  /\ UNCHANGED <<kind, opened, backlog, inbox, arrived, given>>

-----------------------------------------------------------------------------
(* Properties *)

\* The messages among the events of s.
Messages(s) == Only(arrived[s], MessageEvents)

Told(s) == Only(given[s] \o inbox[s], Events)

\* The application is told everything, in order, across the acceptance: what
\* came before it and what comes after, with nothing left behind.  Once the
\* session is closed what it was told is how it began.
ToldInOrder ==
  \A s \in Streams :
    /\ IsPrefix(Told(s), Messages(s))
    /\ ~closed[s] => Told(s) \o Only(backlog[s], MessageEvents) = Messages(s)

\* An application leaves no session behind: it is closed and its stream ended,
\* except for a websocket it never accepted, whose stream stays open after the
\* refusal (line 219).
SessionsEnd ==
  \A s \in Streams : app[s] = "ended" /\ kind[s] # "http" =>
    /\ closed[s]
    /\ "fin" \in ToSet(wire[s]) <=> opened[s] \/ kind[s] = "webtransport"

\* A closed session is over in both directions: the server sends no more on its
\* stream, and the application is told no more.
ClosedIsOver ==
  [][ \A s \in Streams : closed[s] =>
        wire'[s] = wire[s] /\ Len(Told(s)') = Len(Told(s)) ]_serverVars
=============================================================================
