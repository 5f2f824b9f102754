---------------------------- MODULE Measurement -----------------------------
(***************************************************************************)
(* The measurement clients, their servers and what the analysis makes of   *)
(* their logs.                                                             *)
(*   aeacus  fake_client_aeacus.py registers with fake_server_aeacus.py;   *)
(*           then one process sends DNS queries and another reads the      *)
(*           handshakes that the DNS server sends where it was registered  *)
(*   dns     fake_client_dns.py sends a query, matches the answer by the   *)
(*           DNS id, and has the address echo a datagram                   *)
(*   rtt     rtt_mea.py sends the time to echo_server.py and reads it back *)
(* A query is known by its number; the programs use its time in            *)
(* milliseconds, and no two are sent at the same time.                     *)
(*                                                                         *)
(* What was sent stays in `net`: it can arrive late, again, or never.  A    *)
(* log is kept as what analysis/handshake_delay.py (18-31) and             *)
(* load_rtt_data of analysis/ue_mea.py have read of it line by line.       *)
(***************************************************************************)
EXTENDS Integers, FiniteSets

CONSTANTS MaxQueries,  \* bound: queries
          MaxTime,     \* bound: time, in intervals between queries
          Modulus,     \* the DNS ids, 65535 in the code
          MaxRuns      \* bound: runs of the client

ASSUME ConstantsAssumption ==
  /\ MaxQueries \in Nat /\ MaxTime \in Nat /\ MaxRuns \in Nat \ {0}
  /\ Modulus \in Nat \ {0}

VARIABLES
  program,   \* "aeacus", "dns" or "rtt"
  phase,     \* of the client: "connecting", "running", "over"
  run,       \* which run of the client, that is which socket, this is
  tries,     \* registrations sent in this run
  now,
  since,     \* start_ts, last_send_ts: when the last query was sent
  asked,     \* queries so far
  sentAt,    \* sentAt[n]: the time that names query n
  printed,   \* the query that is logged and not yet sent, 0 for none
  lookup,    \* NAME_LOOKUP_LOG
  ts,        \* the time rtt_mea.py took at the start of its turn; -1 between
  peer,      \* PEERS: the run registered for CLIENT_ID, 0 for none
  forgot,    \* the server restarted in this run
  net,       \* the datagrams sent so far
  data,      \* data[n]: the analysis of the log so far
  heard,     \* the queries whose last answer was read in this run
  line       \* the last line of the log about an answer

clientVars == <<phase, run, tries, since, asked, sentAt, printed, lookup, ts>>
serverVars == <<peer, forgot>>
logVars == <<data, heard, line>>
vars == <<program, now, clientVars, serverVars, net, logVars>>

Queries == 1 .. MaxQueries
Absent == -2     \* no line names the query
Unanswered == -1

\* A datagram: `n` the query it belongs to (or the run, for registrations),
\* `tag` the DNS id or the time it carries as the query it names, `to` the
\* socket it goes to.
Datagrams == [kind : {"register", "registered", "query", "answer", "probe", "last"},
              n : Nat, tag : Nat, to : Nat]

TypeOK ==
  /\ program \in {"aeacus", "dns", "rtt"}
  /\ phase \in {"connecting", "running", "over"}
  /\ run \in 1 .. MaxRuns /\ tries \in 0 .. 3
  /\ now \in 0 .. MaxTime /\ since \in -1 .. now
  /\ asked \in 0 .. MaxQueries /\ sentAt \in [Queries -> 0 .. now]
  /\ printed \in 0 .. asked
  /\ lookup \in [0 .. Modulus - 1 -> 0 .. asked]
  /\ ts \in -1 .. now
  /\ peer \in 0 .. run /\ forgot \in BOOLEAN
  /\ net \subseteq Datagrams
  /\ data \in [Queries -> -2 .. MaxTime] /\ heard \subseteq Queries

Init ==
  /\ program \in {"aeacus", "dns", "rtt"}
  /\ phase = IF program = "aeacus" THEN "connecting" ELSE "running"
  /\ run = 1 /\ tries = 0 /\ now = 0 /\ asked = 0
  /\ since = IF program = "dns" THEN 0 ELSE -1
  /\ sentAt = [n \in Queries |-> 0]
  /\ printed = 0 /\ ts = -1
  /\ lookup = [i \in 0 .. Modulus - 1 |-> 0]
  /\ peer = 0 /\ forgot = FALSE
  /\ net = {}
  /\ data = [n \in Queries |-> Absent]
  /\ heard = {}
  /\ line = [of |-> 0, names |-> 0, delay |-> 0, true |-> 0]

-----------------------------------------------------------------------------
(* The log and its analysis *)

\* `... sent`: the analysis enters -1.
LogSent(n) == data' = [data EXCEPT ![n] = Unanswered]

\* The line of an answer to query n, under the name of query u, read now; `at`
\* is the time the program takes for now.
Logs(n, u, at) ==
  line' = [of |-> n, names |-> u, delay |-> at - sentAt[u], true |-> now - sentAt[n]]

\* The line of the resolver's answer, which the analysis passes over.
LogAnswer(n, u) == Logs(n, u, now) /\ UNCHANGED <<data, heard>>

\* `Handshake succeeded`: the delay takes the place of the -1.
LogLast(n, u) ==
  /\ Logs(n, u, now)
  /\ data' = [data EXCEPT ![u] = now - sentAt[u]]
  /\ heard' = heard \cup {u}

\* `Receive RTT response`: every line enters -1 first, whatever it says.
LogRtt(n, u) ==
  /\ Logs(n, u, ts)
  /\ data' = [[data EXCEPT ![u] = Unanswered] EXCEPT ![u] = ts - sentAt[u]]
  /\ heard' = heard \cup {u}

-----------------------------------------------------------------------------
(* Sending queries *)

\* The interval has passed.
Due == phase = "running" /\ since < now /\ asked < MaxQueries

\* Slip for Asks: the time is rounded and not cut.
AsksRounded(n) ==
  /\ asked' = n
  /\ sentAt' = [sentAt EXCEPT ![n] = now + 1]
  /\ since' = now

\* Query n has its time.
Asks(n) ==
  /\ asked' = n
  /\ sentAt' = [sentAt EXCEPT ![n] = now]
  /\ since' = now

AeacusQuery(n) == [kind |-> "query", n |-> n, tag |-> n, to |-> 0]

\* Slip for DnsSender: the line is written after the query was sent.
DnsSenderPrintsLast ==
  /\ program = "aeacus" /\ phase = "running"
  /\ \/ /\ Due /\ printed = 0
        /\ Asks(asked + 1) /\ printed' = asked + 1
        /\ net' = net \cup {AeacusQuery(asked + 1)} /\ UNCHANGED data
     \/ /\ printed # 0 /\ printed' = 0
        /\ LogSent(printed)
        /\ UNCHANGED <<asked, sentAt, since, net>>
  /\ UNCHANGED <<program, now, phase, run, tries, lookup, ts, serverVars, heard, line>>

\* dns_sender(), a process of its own (25-37): the line is flushed, and then the
\* query is sent, while the other process reads.
DnsSender ==
  /\ program = "aeacus" /\ phase = "running"
  /\ \/ /\ Due /\ printed = 0
        /\ Asks(asked + 1) /\ printed' = asked + 1
        /\ LogSent(asked + 1) /\ UNCHANGED net
     \/ /\ printed # 0 /\ printed' = 0
        /\ net' = net \cup {AeacusQuery(printed)}
        /\ UNCHANGED <<asked, sentAt, since, data>>
  /\ UNCHANGED <<program, now, phase, run, tries, lookup, ts, serverVars, heard, line>>

\* Slip for DnsAsks: an id that is taken keeps the time it has.
DnsAsksOnce ==
  /\ program = "dns" /\ Due
  /\ Asks(asked + 1)
  /\ LogSent(asked + 1)
  /\ LET id == asked % Modulus
     IN  /\ net' = net \cup {[kind |-> "query", n |-> asked + 1, tag |-> id, to |-> 0]}
         /\ lookup' = [lookup EXCEPT ![id] = IF @ = 0 THEN asked + 1 ELSE @]
  /\ UNCHANGED <<program, now, phase, run, tries, printed, ts, serverVars, heard, line>>

\* fake_client_dns.py:55-64: ids are used again after Modulus queries, and the
\* time of the older query is overwritten.
DnsAsks ==
  /\ program = "dns" /\ Due
  /\ Asks(asked + 1)
  /\ LogSent(asked + 1)
  /\ LET id == asked % Modulus
     IN  /\ net' = net \cup {[kind |-> "query", n |-> asked + 1, tag |-> id, to |-> 0]}
         /\ lookup' = [lookup EXCEPT ![id] = asked + 1]
  /\ UNCHANGED <<program, now, phase, run, tries, printed, ts, serverVars, heard, line>>

\* rtt_mea.py:21-27: a turn begins with taking the time, and may send.
RttTurn ==
  /\ program = "rtt" /\ phase = "running" /\ ts = -1
  /\ ts' = now
  /\ IF Due THEN /\ Asks(asked + 1) /\ LogSent(asked + 1)
                 /\ net' = net \cup {[kind |-> "query", n |-> asked + 1, tag |-> asked + 1, to |-> 0]}
            ELSE UNCHANGED <<asked, sentAt, since, data, net>>
  /\ UNCHANGED <<program, now, phase, run, tries, printed, lookup, serverVars, heard, line>>

-----------------------------------------------------------------------------
(* Reading answers *)

\* fake_client_dns.py:65-72: the answer names the query by its id; the address
\* in it, if there is one, is sent a probe.
DnsAnswer(m) ==
  /\ program = "dns" /\ phase = "running"
  /\ m.kind = "answer"
  /\ LET u == lookup[m.tag]
         probe == [kind |-> "probe", n |-> m.n, tag |-> u, to |-> 0]
     IN  /\ LogAnswer(m.n, u)
         /\ net' \in {net \cup {probe}, net}
  /\ UNCHANGED <<program, now, clientVars, serverVars>>

\* fake_client_dns.py:78-86: the echo of the probe.
EchoRead(m) ==
  /\ program = "dns" /\ phase = "running"
  /\ m.kind = "last"
  /\ LogLast(m.n, m.tag)
  /\ UNCHANGED <<program, now, clientVars, serverVars, net>>

\* fake_client_aeacus.py:71-83: the server's handshake, which comes to the socket
\* that was registered.
HandshakeRead(m) ==
  /\ program = "aeacus" /\ phase = "running"
  /\ m.kind = "last" /\ m.to = run
  /\ LogLast(m.n, m.tag)
  /\ UNCHANGED <<program, now, clientVars, serverVars, net>>

\* rtt_mea.py:28-33: the delay is reckoned from the start of the turn.
RttRead(m) ==
  /\ ts >= 0 /\ m.kind = "last"
  /\ LogRtt(m.n, m.tag)
  /\ ts' = -1
  /\ UNCHANGED <<program, now, phase, run, tries, since, asked, sentAt, printed, lookup,
                 serverVars, net>>

\* Nothing to read.
RttIdle ==
  /\ ts >= 0 /\ ts' = -1
  /\ UNCHANGED <<program, now, phase, run, tries, since, asked, sentAt, printed, lookup,
                 serverVars, net, logVars>>

-----------------------------------------------------------------------------
(* Registration and runs of fake_client_aeacus.py *)

\* connect(): up to three registrations, each waited for (40-60).
Register ==
  /\ phase = "connecting" /\ tries < 3
  /\ tries' = tries + 1
  /\ net' = net \cup {[kind |-> "register", n |-> run, tag |-> 0, to |-> 0]}
  /\ UNCHANGED <<program, now, phase, run, since, asked, sentAt, printed, lookup, ts,
                 serverVars, logVars>>

\* Slip for Registered: the client does not wait for the server.
RegisteredUnheard(m) ==
  /\ phase = "connecting" /\ tries > 0
  /\ m.kind = "register" /\ m.n = run
  /\ phase' = "running"
  /\ UNCHANGED <<program, now, run, tries, since, asked, sentAt, printed, lookup, ts,
                 serverVars, net, logVars>>

\* The server's '0' has come: the sender is started (50-53, 69-70).
Registered(m) ==
  /\ phase = "connecting" /\ tries > 0
  /\ m.kind = "registered" /\ m.to = run
  /\ phase' = "running"
  /\ UNCHANGED <<program, now, run, tries, since, asked, sentAt, printed, lookup, ts,
                 serverVars, net, logVars>>

\* The third try fails (60-67), or the time is up and the sender is killed (85).
Stop ==
  /\ \/ phase = "connecting" /\ tries = 3
     \/ phase = "running"
  /\ phase' = "over" /\ printed' = 0 /\ ts' = -1
  /\ UNCHANGED <<program, now, run, tries, since, asked, sentAt, lookup, serverVars, net, logVars>>

\* The client is started again, with another socket and another log.
NextRun ==
  /\ program = "aeacus" /\ phase = "over" /\ run < MaxRuns
  /\ run' = run + 1 /\ tries' = 0 /\ phase' = "connecting" /\ since' = -1
  /\ data' = [n \in Queries |-> Absent] /\ heard' = {} /\ forgot' = FALSE
  /\ UNCHANGED <<program, now, asked, sentAt, printed, lookup, ts, peer, net, line>>

-----------------------------------------------------------------------------
(* The servers *)

\* fake_server_aeacus.py:17-23: the last registration counts.
ServerRegisters(m) ==
  /\ m.kind = "register"
  /\ peer' = m.n
  /\ net' = net \cup {[kind |-> "registered", n |-> m.n, tag |-> 0, to |-> m.n]}
  /\ UNCHANGED <<program, now, clientVars, forgot, logVars>>

\* fake_server_aeacus.py:33-44: the query is answered, which nobody reads, and
\* the handshake goes to the client registered; without one there is a KeyError.
ServerHandshakes(m) ==
  /\ program = "aeacus" /\ m.kind = "query" /\ peer # 0
  /\ net' = net \cup {[kind |-> "last", n |-> m.n, tag |-> m.tag, to |-> peer]}
  /\ UNCHANGED <<program, now, clientVars, serverVars, logVars>>

\* The resolver's answer, and the echoes (fake_server_dns.py:14-15,
\* echo_server.py:14-15): what came goes back.
ServerAnswers(m) ==
  /\ \/ program = "dns" /\ m.kind \in {"query", "probe"}
     \/ program = "rtt" /\ m.kind = "query"
  /\ net' = net \cup {[m EXCEPT !.kind = IF program = "dns" /\ m.kind = "query" THEN "answer" ELSE "last",
                                 !.to = run]}
  /\ UNCHANGED <<program, now, clientVars, serverVars, logVars>>

\* PEERS is in memory only.
ServerRestarts ==
  /\ program = "aeacus" /\ peer # 0
  /\ peer' = 0 /\ forgot' = TRUE
  /\ UNCHANGED <<program, now, clientVars, net, logVars>>

Tick ==
  /\ now < MaxTime /\ now' = now + 1
  /\ UNCHANGED <<program, clientVars, serverVars, net, logVars>>

Next ==
  \/ DnsSender \/ DnsAsks \/ RttTurn \/ RttIdle
  \/ Register \/ Stop \/ NextRun \/ ServerRestarts \/ Tick
  \/ \E m \in net :
       \/ DnsAnswer(m) \/ EchoRead(m) \/ HandshakeRead(m) \/ RttRead(m) \/ Registered(m)
       \/ ServerRegisters(m) \/ ServerHandshakes(m) \/ ServerAnswers(m)

Spec == Init /\ [][Next]_vars

-----------------------------------------------------------------------------
(* Properties *)

\* An answer is logged for the query it answers, except when the ids have come
\* round since: then for a later query of the same id.
AnswersAreMatched ==
  /\ line.names >= line.of
  /\ line.names - line.of < Modulus => line.names = line.of
  /\ (line.names - line.of) % Modulus = 0

\* The delays in a log are never negative and never longer than the exchange
\* took, although ids come round, answers come twice and the time is taken
\* before the read.
DelaysNotOverstated == line.delay \in 0 .. line.true

\* What the analysis makes of a log at any point is which queries were answered:
\* no line of the sending process undoes one of the reading process.  (A query
\* of an earlier run whose handshake comes now counts for this one.)
AnalysisAgrees ==
  \A n \in Queries : data[n] >= 0 <=> n \in heard

\* While a client sends queries the server knows one to send the handshakes to,
\* unless it restarted; it knows the client that runs, or one that ran before
\* whose registration came late.
RegisteredWhileAsking ==
  program = "aeacus" /\ phase = "running" /\ ~forgot => peer \in 1 .. run
=============================================================================
