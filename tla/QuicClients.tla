---------------------------- MODULE QuicClients -----------------------------
(***************************************************************************)
(* The QUIC clients that drive a connection by hand: dummy_client.py,      *)
(* quic_support_tester.py and migration_client.py.  Each is one loop: send *)
(* what the connection has to send, read a datagram if there is one, hand  *)
(* it over, handle the events it brought, until a flag or a deadline.  The *)
(* echo server (dummy_server.py) waits for a datagram, handles its events  *)
(* and sends.                                                              *)
(*                                                                         *)
(* Neither end calls handle_timer: the library finds out about a loss when *)
(* something else arrives, or never.  A datagram carries one frame here; it*)
(* may be lost, and be overtaken.  A frame an end has no keys for is lost. *)
(***************************************************************************)
EXTENDS Integers, FiniteSets

CONSTANTS Limit,      \* the deadline of a program, in the migration's intervals
          MaxQueries  \* bound: streams of a connection

ASSUME LimitAssumption ==
  /\ Limit \in Nat \ {0}
  /\ MaxQueries \in Nat /\ MaxQueries > 2 * Limit

VARIABLES
  program,    \* which client runs
  peer,       \* what it meets: the echo server, a server it does not trust,
              \* one that refuses the connection, or one of other versions
  zeroRtt,    \* the option --zero-rtt
  state,      \* of the loop
  round,      \* of the migration
  now,        \* the clock
  start,      \* START_TS
  index,      \* of the migration's listen()
  phase,      \* of the client's handshake
  closing,    \* the library's _close_event
  flag,       \* CLOSE
  queued,     \* what the client's connection has to send
  up, down,   \* in flight, to the server and to the client
  lost,       \* lost, and not known to be by the end that sent it
  asked,      \* queries of the connection
  early,      \* those of them that left in early data, when they last did
  got,        \* the queries whose answer was read
  result,     \* the tester's result for the domain; "none" without an entry
  ticket,     \* a session ticket is saved
  resumed,    \* the connection was opened with one
  server,     \* the server's connection
  accepts     \* it takes early data

network == <<queued, up, down, lost>>
connection == <<phase, closing, asked, early, got, resumed, server, accepts, network>>
clock == <<now, start, index>>
vars == <<program, peer, zeroRtt, state, round, clock, flag, result, ticket, connection>>

Hello == <<"hello", 0>>       Accept == <<"accept", 0>>
Done == <<"done", 0>>         Finish == <<"finish", 0>>
Close == <<"close", 0>>       Refuse == <<"refuse", 0>>
Versions == <<"versions", 0>>
Query(i) == <<"query", i>>    Echo(i) == <<"echo", i>>
Ticket == <<"ticket", 0>>     Nothing == <<"nothing", 0>>

ClientFrames == {Hello, Done, Close} \cup {Query(i) : i \in 1 .. MaxQueries}
ServerFrames == {Accept, Finish, Refuse, Versions, Ticket} \cup {Echo(i) : i \in 1 .. MaxQueries}

TypeOK ==
  /\ program \in {"dummy", "tester", "migration"}
  /\ peer \in {"echo", "untrusted", "refuses", "versions"}
  /\ zeroRtt \in BOOLEAN /\ ticket \in BOOLEAN /\ resumed \in BOOLEAN
  /\ state \in {"loop", "over"} /\ round \in {1, 2} /\ now \in 0 .. 2 * Limit
  /\ start = 0 /\ index \in 0 .. MaxQueries
  /\ phase \in {"hello", "accepted", "complete"}
  /\ closing \in BOOLEAN /\ flag \in BOOLEAN
  /\ queued \subseteq ClientFrames /\ up \subseteq ClientFrames
  /\ down \subseteq ServerFrames /\ lost \subseteq ClientFrames \cup ServerFrames
  /\ asked \in 0 .. MaxQueries /\ got \subseteq 1 .. asked /\ early \subseteq 1 .. asked
  /\ result \in {"none", "-1", "1", "2"}
  /\ server \in {"none", "shaking", "up", "gone"} /\ accepts \in BOOLEAN

\* init_quic(): the ticket is used if there is one; the dummy has it from a file,
\* the migration from its first round.  The tester has none.
Configured == program # "tester" /\ ticket

\* connect(): a new connection has its first packet to send.
Opened == {Hello}

\* With --zero-rtt the dummy's query follows (dummy_client.py:140-147).
Early == IF zeroRtt THEN {Query(1)} ELSE {}

Init ==
  /\ program \in {"dummy", "tester", "migration"}
  /\ peer \in IF program = "migration" THEN {"echo"}
             ELSE {"echo", "untrusted", "refuses", "versions"}
  /\ zeroRtt \in IF program = "dummy" THEN BOOLEAN ELSE {FALSE}
  /\ ticket \in IF program = "dummy" THEN BOOLEAN ELSE {FALSE}
  /\ state = "loop" /\ round = 1 /\ now = 0 /\ start = 0 /\ index = 0
  /\ flag = FALSE /\ result = "none" /\ resumed = Configured
  /\ phase = "hello" /\ closing = FALSE
  /\ asked = Cardinality(Early) /\ early = {} /\ got = {}
  /\ server = "none" /\ accepts = FALSE
  /\ queued = Opened \cup Early
  /\ up = {} /\ down = {} /\ lost = {}

-----------------------------------------------------------------------------
(* The client *)

\* The deadline of listen(); the second round of the migration runs to twice
\* the first's (118-124).
Deadline == round * Limit

\* The time since START_TS.
Elapsed == now - start

\* Slip for Continues: the dummy's loop has no deadline.
ContinuesUntimed ==
  CASE program = "dummy" -> ~flag
    [] program = "tester" -> ~closing /\ Elapsed < Deadline
    [] OTHER -> Elapsed < Deadline

\* The conditions of the loops: dummy_client.py:176, tester 56, migration 94.
Continues ==
  /\ Elapsed < Deadline
  /\ program = "dummy" => ~flag
  /\ program = "tester" => ~closing

\* What datagrams_to_send returns: a query only with keys for it; on a
\* connection that was closed, the close alone.
Sendable ==
  IF closing THEN queued \cap {Close}
  ELSE {f \in queued : f[1] = "query" => phase = "complete" \/ resumed}

\* The queries that were last sent before the handshake was done: the keys of
\* early data are for them.
SentEarly ==
  LET sent == {i \in 1 .. MaxQueries : Query(i) \in Sendable}
  IN  IF phase = "complete" THEN early \ sent ELSE early \cup sent

\* It is time for the migration's next query (98-100), at most one per turn.
Due == program = "migration" /\ Elapsed >= index /\ asked < MaxQueries

\* The frame makes an event of the connection.  Before the keys of its level it
\* makes none.
Readable(f) ==
  \/ f \in {Nothing, Accept, Refuse, Versions} /\ phase = "hello"
  \/ f \in {Nothing, Finish, Refuse} /\ phase = "accepted"
  \/ f[1] \in {"nothing", "ticket", "echo", "refuse"} /\ phase = "complete"

\* What the library makes of a frame: ProtocolNegotiated, HandshakeCompleted,
\* StreamDataReceived, or, when no version is common, ConnectionTerminated.  A
\* connection that the server refuses ends in an event that waits for the timer.
Events(f) ==
  CASE f = Accept -> {"negotiated"}
    [] f = Finish /\ peer # "untrusted" -> {"completed"}
    [] f[1] = "echo" -> {"data"}
    [] f = Versions -> {"terminated"}
    [] OTHER -> {}

\* The client closes: on the first answer (dummy 167-171, tester 88-89), or in
\* the library, for a certificate it does not trust.
Closes(f) ==
  \/ Events(f) = {"data"} /\ program # "migration"
  \/ f = Finish /\ peer = "untrusted"

\* Slip for Verdict: a completed handshake is forgotten at the next event.
VerdictLatest(f) ==
  IF program # "tester" \/ Events(f) = {} THEN result
  ELSE IF Events(f) = {"completed"} THEN "2" ELSE "1"

\* The tester's result after an event (80-85).
Verdict(f) ==
  IF program # "tester" \/ Events(f) = {} THEN result
  ELSE IF Events(f) = {"completed"} \/ result = "2" THEN "2" ELSE "1"

\* save_session_ticket(); the tester has no such handler.
SavesTicket(f) == f = Ticket /\ program # "tester"

\* The end of the handshake makes the dummy and the tester ask.
Asks(f) == Events(f) = {"completed"} /\ program # "migration"

\* The events of a frame that can be read (dummy 158-172, tester 77-90,
\* migration 71-79); `left` is what the connection has to send already, and a
\* frame that came may tell the library of losses.
Receive(f, left, streams) ==
  /\ phase' = CASE f = Accept -> "accepted" [] Events(f) = {"completed"} -> "complete"
                [] OTHER -> phase
  /\ closing' = (Closes(f) \/ f \in {Refuse, Versions})
  /\ flag' = (flag \/ (program = "dummy" /\ Events(f) = {"data"}))
  /\ asked' = IF Asks(f) THEN streams + 1 ELSE streams
  /\ got' = got \cup {i \in 1 .. MaxQueries : f = Echo(i)}
  /\ result' = Verdict(f)
  /\ ticket' = (ticket \/ SavesTicket(f))
  /\ \E again \in IF f = Nothing THEN {{}} ELSE SUBSET (lost \cap ClientFrames) :
       /\ lost' = lost \ again
       /\ queued' = IF Closes(f) THEN {Close}
                    ELSE left \cup again \cup (IF Events(f) = {"completed"} THEN {Done} ELSE {})
                           \cup {Query(i) : i \in streams + 1 .. asked'}

\* One turn of the loop of listen(): send; ask, if it is time; read and handle
\* a datagram, if there is one.  A connection that was closed takes no more.
Turn(f) ==
  /\ state = "loop" /\ Continues
  /\ f \in down \cup {Nothing}
  /\ up' = up \cup Sendable
  /\ early' = SentEarly
  /\ down' = down \ {f}
  /\ LET new == IF Due THEN {Query(asked + 1)} ELSE {}
         left == (queued \ Sendable) \cup new
         streams == asked + Cardinality(new)
     IN  /\ index' = index + Cardinality(new)
         /\ IF Readable(f) /\ ~closing
            THEN Receive(f, left, streams)
            ELSE /\ queued' = left /\ asked' = streams
                 /\ lost' = lost \cup ({f} \ {Nothing})
                 /\ UNCHANGED <<phase, closing, flag, got, result, ticket>>
  /\ UNCHANGED <<program, peer, zeroRtt, state, round, now, start, resumed, server, accepts>>

\* dummy_client.py leaves its loop without sending again.
DummyEnds ==
  /\ program = "dummy" /\ state = "loop" /\ ~Continues
  /\ state' = "over"
  /\ UNCHANGED <<program, peer, zeroRtt, round, clock, flag, result, ticket, connection>>

\* Slip for TesterEnds: what is left is not sent.
TesterEndsUnsent ==
  /\ program = "tester" /\ state = "loop" /\ ~Continues
  /\ state' = "over"
  /\ result' = IF result = "none" THEN "-1" ELSE result
  /\ UNCHANGED <<program, peer, zeroRtt, round, clock, flag, ticket, connection>>

\* The tester sends what is left and enters the domain without an event (69-74).
TesterEnds ==
  /\ program = "tester" /\ state = "loop" /\ ~Continues
  /\ state' = "over"
  /\ up' = up \cup Sendable /\ queued' = queued \ Sendable
  /\ early' = SentEarly
  /\ result' = IF result = "none" THEN "-1" ELSE result
  /\ UNCHANGED <<program, peer, zeroRtt, round, clock, flag, ticket, phase, closing, asked,
                 got, resumed, server, accepts, down, lost>>

\* A domain without an IPv4 address has no connection: the AttributeError is
\* caught and no result entered (39-47, 106-110).
TesterSkips ==
  /\ program = "tester" /\ state = "loop" /\ queued = Opened /\ up = {} /\ result = "none"
  /\ lost = {} /\ server = "none"
  /\ state' = "over"
  /\ UNCHANGED <<program, peer, zeroRtt, round, clock, flag, result, ticket, connection>>

\* Slip for NextRound: listen() sets START_TS in the second round too.
NextRoundRestarts ==
  /\ program = "migration" /\ state = "loop" /\ round = 1 /\ ~Continues
  /\ round' = 2 /\ resumed' = Configured
  /\ start' = now /\ index' = 0
  /\ phase' = "hello" /\ closing' = FALSE
  /\ asked' = 0 /\ early' = {} /\ got' = {} /\ server' = "none" /\ accepts' = FALSE
  /\ queued' = Opened /\ up' = {} /\ down' = {} /\ lost' = {}
  /\ UNCHANGED <<program, peer, zeroRtt, state, now, flag, result, ticket>>

\* run(2): another socket, server and connection, with the ticket if there is
\* one; START_TS stays and index begins anew (88-92, 110-124).
NextRound ==
  /\ program = "migration" /\ state = "loop" /\ round = 1 /\ ~Continues
  /\ round' = 2 /\ resumed' = Configured
  /\ index' = 0
  /\ phase' = "hello" /\ closing' = FALSE
  /\ asked' = 0 /\ early' = {} /\ got' = {} /\ server' = "none" /\ accepts' = FALSE
  /\ queued' = Opened /\ up' = {} /\ down' = {} /\ lost' = {}
  /\ UNCHANGED <<program, peer, zeroRtt, state, now, start, flag, result, ticket>>

MigrationEnds ==
  /\ program = "migration" /\ state = "loop" /\ round = 2 /\ ~Continues
  /\ state' = "over"
  /\ UNCHANGED <<program, peer, zeroRtt, round, clock, flag, result, ticket, connection>>

Client ==
  \/ \E f \in ServerFrames \cup {Nothing} : Turn(f)
  \/ DummyEnds \/ TesterEnds \/ TesterSkips \/ NextRound \/ MigrationEnds

-----------------------------------------------------------------------------
(* The server and the network *)

\* The answer to a first packet, by the server's kind.
Answer ==
  CASE peer = "refuses" -> {Refuse} [] peer = "versions" -> {Versions}
    [] OTHER -> {Accept, Finish}

\* Slip for Reply: a query in early data is taken and not answered.
ReplyLate(f) ==
  CASE f = Hello -> Answer
    [] f = Done -> {Ticket}
    [] f[1] = "query" /\ server = "up" -> {Echo(f[2])}
    [] OTHER -> {}

\* What the server sends for a frame: its flight, a ticket, the echo of a query
\* (dummy_server.py:156-159).
Reply(f) ==
  CASE f = Hello -> Answer
    [] f = Done -> {Ticket}
    [] f[1] = "query" -> {Echo(f[2])}
    [] OTHER -> {}

\* The server has the keys for a query: those of early data if it accepts that,
\* the others once the client's Finished has come.
Takes(f) ==
  f[1] = "query" /\ IF f[2] \in early THEN accepts /\ server \in {"shaking", "up"}
                    ELSE server = "up"

\* What becomes of the server's connection: a first packet makes it, unless the
\* version is unknown, and early data is accepted or not; the client's Finished
\* completes it, its close ends it.
Connects(f) ==
  \/ /\ server = "none" /\ f = Hello
     /\ server' = CASE peer = "refuses" -> "gone" [] peer = "versions" -> "none"
                    [] OTHER -> "shaking"
     /\ accepts' \in IF resumed THEN BOOLEAN ELSE {FALSE}
  \/ server = "shaking" /\ f = Done /\ server' = "up" /\ UNCHANGED accepts
  \/ server \in {"shaking", "up"} /\ f = Close /\ server' = "gone" /\ UNCHANGED accepts
  \/ Takes(f) /\ UNCHANGED <<server, accepts>>

\* The frame is not for a connection of the server, or it has no keys for it.
Ignores(f) ==
  \/ server \in {"none", "gone"} /\ f # Hello
  \/ server \in {"shaking", "up"} /\ f[1] = "query" /\ ~Takes(f)

\* One turn of the server's loop (245-256): a datagram, its events, and all
\* there is to send, what it learnt to be lost included.
Serve(f) ==
  /\ f \in up
  /\ up' = up \ {f}
  /\ \/ /\ Connects(f)
        /\ \E again \in SUBSET (lost \cap ServerFrames) :
             /\ down' = down \cup (IF server' = "gone" THEN {} ELSE again) \cup Reply(f)
             /\ lost' = lost \ again
     \/ /\ Ignores(f)
        /\ lost' = lost \cup {f}
        /\ UNCHANGED <<server, accepts, down>>
  /\ UNCHANGED <<program, peer, zeroRtt, state, round, clock, flag, result, ticket, phase,
                 closing, queued, asked, early, got, resumed>>

\* The network loses a datagram.
Lose(f) ==
  /\ f \in up \cup down
  /\ up' = up \ {f} /\ down' = down \ {f}
  /\ lost' = lost \cup {f}
  /\ UNCHANGED <<program, peer, zeroRtt, state, round, clock, flag, result, ticket, phase,
                 closing, queued, asked, early, got, resumed, server, accepts>>

Tick ==
  /\ state = "loop" /\ Elapsed < Deadline
  /\ now' = now + 1
  /\ UNCHANGED <<program, peer, zeroRtt, state, round, start, index, flag, result, ticket,
                 connection>>

Next ==
  \/ Client \/ Tick
  \/ \E f \in ClientFrames : Serve(f)
  \/ \E f \in ClientFrames \cup ServerFrames : Lose(f)

\* The programs do not block, and time passes.
Fairness == WF_vars(Client) /\ WF_vars(Tick)

Spec == Init /\ [][Next]_vars /\ Fairness

-----------------------------------------------------------------------------
(* Properties *)

\* Nothing is on its way and nothing is left to send.
Quiet == up = {} /\ down = {} /\ (state = "loop" => Sendable = {})

\* The exchange of a client with the echo server stops short of its end only
\* because of a loss nobody has noticed: neither loop forgets to send, to
\* answer, or to hand over what it read.
QuietOnlyAfterLoss ==
  Quiet /\ state = "loop" /\ peer = "echo" /\ ~closing =>
    (phase = "complete" /\ got = 1 .. asked) \/ lost # {}

\* The server ends the connection: the client has nothing to tell it.
EndsItself == peer \in {"refuses", "versions"}

\* The server has been sent the close.
CloseSent == Close \in up \cup lost \/ (server = "gone" /\ ~EndsItself)

\* The tester tells the server that it leaves.  The dummy client does not: the
\* flag that its answer sets ends the loop before the close is sent.
CloseIsSent ==
  /\ program = "tester" /\ state = "over" /\ closing /\ ~EndsItself => CloseSent
  /\ program = "dummy" /\ flag => ~CloseSent

\* The tester's result says how far the handshake came, whatever events came
\* after it and in whichever order datagrams arrived.  One exception: a server
\* without a common version counts as one that has begun the handshake, since
\* the end of the connection is an event as well (80-82).
VerdictIsPhase ==
  program = "tester" =>
    /\ result = "2" <=> phase = "complete"
    /\ result = "1" <=> phase = "accepted" \/ (peer = "versions" /\ closing)
    /\ result = "-1" => phase = "hello"

\* Whenever the migration has caught up, its connection has asked once for every
\* interval since the first round began: in the second round those of the first
\* are asked for again.  Without a ticket no query leaves before the handshake is
\* done; with one, all but the newest have left, if the server has not yet
\* answered.
QueriesPaced ==
  program = "migration" =>
    /\ asked <= now + 1
    /\ ~Due => asked = now + 1
    /\ ~resumed /\ phase # "complete" =>
         \A i \in 1 .. asked : Query(i) \in queued
    /\ resumed /\ phase = "hello" =>
         \A i \in 1 .. asked : Query(i) \in queued => i = asked

\* Every client ends, whatever the network and its peer do.
ProgramEnds == <>(state = "over")
=============================================================================
