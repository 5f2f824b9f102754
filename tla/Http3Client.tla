---------------------------- MODULE Http3Client -----------------------------
(***************************************************************************)
(* The HTTP/3 client (http3_client.py) against the server of Http3Server.  *)
(* main() requests its URLs together, or talks over a WebSocket.  A        *)
(* request is a future that the end of its stream completes, and its       *)
(* response is written to a file named like the URL; a WebSocket is a      *)
(* queue of messages; what the server pushes is kept per push stream, from *)
(* its promise on, and saved when all requests are done.                   *)
(*                                                                         *)
(* QUIC keeps the order within a stream and no order between streams: each *)
(* end reads every stream at its own pace.  The connection may be lost at  *)
(* any time, and then nothing more arrives anywhere; neither program looks *)
(* for ConnectionTerminated.  Besides this client the server meets any     *)
(* other ("other"), whose events are bounded only by the protocol.         *)
(***************************************************************************)
EXTENDS Http3Server

CONSTANTS MaxEvents,    \* bound: events of a stream of another client
          MaxData       \* bound: data an application sends on a stream

VARIABLES
  scheme,      \* of the URLs: "https", "wss"; "other" for another client
  urls,        \* the streams of the requests main() makes
  clash,       \* the URLs, and what is pushed, have one file name
  posts,       \* main() was given data to post
  upstream,    \* upstream[s]: what the client sent and the server has not read
  read,        \* read[s]: how many items of wire[s] the client has read
  waiter,      \* waiter[s]: the future in _request_waiter
  events,      \* events[s]: _request_events, later the result of the request
  pushes,      \* pushes[p]: the deque of a push; empty without a key
  ws,          \* the WebSocket: texts sent and received, texts in its queue,
               \* and whether wsproto has seen the server close
  files,       \* files[s]: the file of the name s; <<"absent">> without one
  main,        \* the task of main()
  lost         \* the connection is lost

givenVars == <<scheme, urls, clash, posts>>
clientVars == <<upstream, read, waiter, events, pushes, ws, files, main, lost>>
vars == <<serverVars, givenVars, clientVars>>

ClientItems == {"get", "post", "connect", "body", "text", "closing"}

TypeOK ==
  /\ ServerTypeOK
  /\ scheme \in {"https", "wss", "other"} /\ urls \subseteq Streams
  /\ posts \in BOOLEAN /\ clash \in BOOLEAN /\ lost \in BOOLEAN
  /\ upstream \in [Streams -> Seq(ClientItems)]
  /\ \A s \in Streams : read[s] \in 0 .. Len(wire[s])
  /\ waiter \in [Streams -> {"none", "pending", "done", "returned"}]
  /\ events \in [Streams -> Seq(Contents)]
  /\ pushes \in [Streams -> Seq(Contents \cup {"promise"})]
  /\ ws.sent \in 0 .. 2 /\ ws.received \in 0 .. 2 /\ ws.queued \in Nat
  /\ ws.sent - ws.received \in {0, 1}
  /\ files \in [Streams -> Seq({"absent", "data", "fin"})]
  /\ main \in {"starting", "running", "over", "failed"}

Init ==
  /\ ServerInit
  /\ scheme \in {"https", "wss", "other"}
  /\ urls \in {u \in SUBSET Streams :
                 Cardinality(u) \in CASE scheme = "https" -> {1, 2}
                                      [] scheme = "wss" -> {1}
                                      [] OTHER -> {0}}
  /\ posts \in IF scheme = "https" THEN BOOLEAN ELSE {FALSE}
  /\ clash \in IF scheme = "https" THEN BOOLEAN ELSE {FALSE}
  /\ upstream = [s \in Streams |-> << >>]
  /\ read = [s \in Streams |-> 0]
  /\ waiter = [s \in Streams |-> "none"]
  /\ events = [s \in Streams |-> << >>]
  /\ pushes = [s \in Streams |-> << >>]
  /\ ws = [sent |-> 0, received |-> 0, queued |-> 0, closing |-> FALSE]
  /\ files = [s \in Streams |-> <<"absent">>]
  /\ main = "starting"
  /\ lost = FALSE

-----------------------------------------------------------------------------
(* Sending: HttpClient._request, WebSocket, main *)

\* send_headers or send_data, and the transmit() that follows in the same turn.
Transmit(s, items) == upstream' = [upstream EXCEPT ![s] = @ \o items]

\* The URLs must name one server: a second one may name another (397-426).
CheckUrls ==
  /\ scheme # "other" /\ main = "starting"
  /\ \/ main' = "running"
     \/ Cardinality(urls) = 2 /\ main' = "failed"
  /\ UNCHANGED <<serverVars, givenVars, upstream, read, waiter, events, pushes, ws, files, lost>>

\* Data makes the request a POST (286-306): the headers, then the data, which
\* ends the stream.  A GET ends it with the headers.
RequestItems == IF posts THEN <<"post", "body">> ELSE <<"get">>

\* gather() starts the requests, each of which runs up to its future.
Ask ==
  /\ scheme = "https" /\ main = "running" /\ \A s \in Streams : waiter[s] = "none"
  /\ upstream' = [s \in Streams |-> IF s \in urls THEN RequestItems ELSE << >>]
  /\ waiter' = [s \in Streams |-> IF s \in urls THEN "pending" ELSE "none"]
  /\ UNCHANGED <<serverVars, givenVars, read, events, pushes, ws, files, main, lost>>

\* websocket() and the first send(): the client does not wait for the server to
\* accept.
OpenWebSocket(s) ==
  /\ scheme = "wss" /\ s \in urls /\ main = "running" /\ ws.sent = 0
  /\ Transmit(s, <<"connect", "text">>)
  /\ ws' = [ws EXCEPT !.sent = 1]
  /\ UNCHANGED <<serverVars, givenVars, read, waiter, events, pushes, files, main, lost>>

\* WebSocket.recv() returns a text, and `more` texts are sent after it.
Receives(more) ==
  /\ ws.queued > 0
  /\ ws' = [ws EXCEPT !.received = @ + 1, !.queued = @ - 1, !.sent = @ + more]

\* WebSocket.send() and close(): a text, or the closing frame and the end.
SendText(s) == Transmit(s, <<"text">>)
CloseWebSocket(s) == Transmit(s, <<"closing">>)

\* recv() returns a message (439-451).  After the second the client closes the
\* WebSocket and the connection; after the first it sends again, which wsproto
\* refuses when the server has closed meanwhile.
WebSocketTurn(s) ==
  /\ scheme = "wss" /\ s \in urls /\ main = "running"
  /\ \/ /\ ws.received = 0 /\ ~ws.closing
        /\ Receives(1) /\ SendText(s) /\ UNCHANGED main
     \/ /\ ws.received = 0 /\ ws.closing
        /\ Receives(0) /\ main' = "failed" /\ UNCHANGED upstream
     \/ /\ ws.received = 1
        /\ Receives(0) /\ CloseWebSocket(s) /\ main' = "over"
  /\ UNCHANGED <<serverVars, givenVars, read, waiter, events, pushes, files, lost>>

\* The file a stream's content goes to: the last part of the path.
File(s) == IF clash THEN CHOOSE t \in Streams : TRUE ELSE s

\* What write_response makes of events: the data (headers only on demand).
Written(content) == Only(content, {"data", "fin"})

\* The task of a request goes on, and writes its file over what has the name.
RequestReturns(s) ==
  /\ main = "running" /\ waiter[s] = "done"
  /\ waiter' = [waiter EXCEPT ![s] = "returned"]
  /\ files' = [files EXCEPT ![File(s)] = Written(events[s])]
  /\ UNCHANGED <<serverVars, givenVars, upstream, read, events, pushes, ws, main, lost>>

Pushed == {p \in Streams : pushes[p] # << >>}

\* process_http_pushes(): one file for each, the last of a name stays.
SavePushes ==
  IF clash /\ Pushed # {}
  THEN \E p \in Pushed : files' = [files EXCEPT ![File(p)] = Written(pushes[p])]
  ELSE files' = [s \in Streams |-> IF s \in Pushed THEN Written(pushes[s]) ELSE files[s]]

\* gather() returns; the pushes are saved as they are then and the connection
\* is closed.
AllDone ==
  /\ scheme = "https" /\ main = "running"
  /\ \A s \in urls : waiter[s] = "returned"
  /\ main' = "over"
  /\ SavePushes
  /\ UNCHANGED <<serverVars, givenVars, upstream, read, waiter, events, pushes, ws, lost>>

-----------------------------------------------------------------------------
(* Receiving *)

\* PushPromiseReceived (246-248).
Promised(p) == [pushes EXCEPT ![p] = <<"promise">>]

\* Slips for Answer: the event that ends the stream is left out of the result;
\* stream_ended is not looked at.
AnswerPopsFirst(s, item) ==
  IF item = "fin" THEN /\ waiter' = [waiter EXCEPT ![s] = "done"]
                       /\ UNCHANGED events
                  ELSE /\ events' = [events EXCEPT ![s] = Append(@, item)]
                       /\ UNCHANGED waiter

AnswerUnended(s, item) ==
  /\ events' = [events EXCEPT ![s] = Append(@, item)]
  /\ UNCHANGED waiter

\* An event of a request (230-235): the one that ends its stream completes the
\* future with all of them.
Answer(s, item) ==
  /\ events' = [events EXCEPT ![s] = Append(@, item)]
  /\ waiter' = [waiter EXCEPT ![s] = IF item = "fin" THEN "done" ELSE @]

\* An event of the WebSocket (115-128): text is queued, the status of the
\* response is not looked at, and the server's closing frame is left to wsproto.
WebSocketEvent(item) ==
  ws' = [ws EXCEPT !.queued = IF item = "data" THEN @ + 1 ELSE @,
                   !.closing = @ \/ item = "fin"]

\* Slip for PushEvent: events that come before the promise are kept too.
PushEventUnasked(p, item) == pushes' = [pushes EXCEPT ![p] = Append(@, item)]

\* An event of a push stream (242-244); without a promise it is dropped.
PushEvent(p, item) ==
  pushes' = [pushes EXCEPT ![p] = IF @ = << >> THEN @ ELSE Append(@, item)]

\* http_event_received: the next item of the server's on s, while main() runs
\* (a connection that was closed reads no more).
Read(s) ==
  /\ scheme # "other" /\ main = "running" /\ ~lost
  /\ read[s] < Len(wire[s])
  /\ read' = [read EXCEPT ![s] = @ + 1]
  /\ LET item == wire[s][read[s] + 1]
     IN \/ /\ item \in Streams
           /\ pushes' = Promised(item) /\ UNCHANGED <<waiter, events, ws>>
        \/ /\ item \notin Streams /\ waiter[s] = "pending"
           /\ Answer(s, item) /\ UNCHANGED <<pushes, ws>>
        \/ /\ item \notin Streams /\ scheme = "wss" /\ s \in urls
           /\ WebSocketEvent(item) /\ UNCHANGED <<waiter, events, pushes>>
        \/ /\ item \notin Streams /\ s \notin urls
           /\ PushEvent(s, item) /\ UNCHANGED <<waiter, events, ws>>
  /\ UNCHANGED <<serverVars, givenVars, upstream, files, main, lost>>

\* The server reads the client's next item on s (http3_server.py:448-461).
Deliver(s) ==
  /\ upstream[s] # << >> /\ ~lost
  /\ upstream' = [upstream EXCEPT ![s] = Tail(@)]
  /\ LET item == Head(upstream[s])
     IN \/ item \in {"get", "post"} /\ Request(s, "http", item = "get")
        \/ item = "connect" /\ Request(s, "websocket", FALSE)
        \/ item \in {"body", "text", "closing"} /\ Event(s, item, item # "text")
  /\ UNCHANGED <<givenVars, read, waiter, events, pushes, ws, files, main, lost>>

\* The connection times out or fails.  Neither end tells its waiting tasks.
LoseConnection ==
  /\ scheme # "other" /\ main = "running" /\ ~lost
  /\ lost' = TRUE
  /\ UNCHANGED <<serverVars, givenVars, upstream, read, waiter, events, pushes, ws, files, main>>

-----------------------------------------------------------------------------
(* Other clients, and the whole *)

\* The other client has nothing more to say on s.
Finished(s) ==
  \E i \in DOMAIN arrived[s] : arrived[s][i].last \/ arrived[s][i].type = "closing"

\* A request of another client, or an event of its stream.
OtherRequest(s, k, ended) ==
  /\ scheme = "other"
  /\ Request(s, k, ended)
  /\ UNCHANGED <<givenVars, clientVars>>

OtherEvent(s, type, last) ==
  /\ scheme = "other"
  /\ Len(arrived[s]) < MaxEvents /\ ~Finished(s)
  /\ type \in {"headers", "end"} => last
  /\ last => type \in {"headers", "end", "body", "closing"}
  /\ Event(s, type, last)
  /\ UNCHANGED <<givenVars, clientVars>>

\* The bound on what an application sends.
MayGoOn(s) ==
  Len(Only(wire[s], {"data"})) < IF scheme = "wss" THEN 2 ELSE MaxData

ServerStep(s) ==
  /\ \/ AppStarts(s) \/ AppReceives(s) \/ Accept(s) \/ Close(s)
     \/ MayGoOn(s) /\ SendMessage(s)
     \/ \E item \in {"headers", "data", "fin"} :
          (item = "data" => MayGoOn(s)) /\ Respond(s, item)
     \/ \E p \in Streams \ urls : Push(s, p)
     \/ AppEnds(s)
  /\ UNCHANGED <<givenVars, clientVars>>

Next ==
  \/ \E s \in Streams :
       \/ OpenWebSocket(s) \/ WebSocketTurn(s) \/ RequestReturns(s)
       \/ Read(s) \/ Deliver(s)
       \/ ServerStep(s)
       \/ \E k \in Kinds, ended \in BOOLEAN : OtherRequest(s, k, ended)
       \/ \E e \in {"body", "headers", "text", "closing", "end", "datagram", "stream"},
            last \in BOOLEAN : OtherEvent(s, e, last)
  \/ CheckUrls \/ Ask \/ AllDone \/ LoseConnection

Spec == Init /\ [][Next]_vars

-----------------------------------------------------------------------------
(* Properties *)

\* The whole response of the server's application on s.
Response(s) == Only(wire[s], Contents)

\* What get() and post() return is the whole response of the server's
\* application, in order, whatever came between on other streams and whenever
\* the connection was lost; and so is the file, which URLs of one name share, up
\* to the end, when what was pushed under the name replaces it.
ResultsWhole ==
  \A s \in urls :
    /\ waiter[s] \in {"done", "returned"} => Last(wire[s]) = "fin" /\ events[s] = Response(s)
    /\ waiter[s] = "returned" =>
         \/ \E u \in urls : /\ waiter[u] = "returned" /\ File(u) = File(s)
                            /\ files[File(s)] = Written(Response(u))
         \/ main = "over" /\ \E p \in Pushed : /\ File(p) = File(s)
                                                /\ files[File(s)] = Written(pushes[p])

\* No answer is overlooked: when the client has read all there is, a request
\* waits only if the application has not ended its response, and recv() waits
\* only if the application has sent no more texts than were received.
WaitsOnlyForServer ==
  /\ \A s \in urls :
       waiter[s] = "pending" /\ read[s] = Len(wire[s]) => "fin" \notin ToSet(wire[s])
  /\ scheme = "wss" => \A s \in urls :
       ws.received + ws.queued = Len(Only(SubSeq(wire[s], 1, read[s]), {"data"}))

\* What is kept of a push is its promise and, without a gap, what was read of
\* its stream since, promises of further pushes aside: data that overtook the
\* promise is missing at its start, and nowhere else.
PushesWhole ==
  \A p \in Streams : pushes[p] # << >> =>
    /\ Head(pushes[p]) = "promise"
    /\ IsSuffix(Tail(pushes[p]), Only(SubSeq(wire[p], 1, read[p]), Contents))
=============================================================================
