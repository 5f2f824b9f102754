-------------------------- MODULE MeasurementProofs --------------------------
(***************************************************************************)
(* Proofs about Measurement, for any number of queries, ids and runs, and  *)
(* any length of time: typing, and what a log and its analysis say.        *)
(*                                                                         *)
(* The argument follows the datagrams (Carried): one about a query names   *)
(* that query or a later one, and one that says "registered" tells that    *)
(* the server has known a client since it last started.                    *)
(***************************************************************************)
EXTENDS Measurement, TLAPS

Names(m) ==
  /\ m.n \in 1 .. asked
  /\ program # "dns" => m.tag = m.n
  /\ program = "dns" /\ m.kind \in {"query", "answer"} =>
       /\ m.tag \in 0 .. Modulus - 1 /\ m.tag = (m.n - 1) % Modulus
       /\ lookup[m.tag] \in m.n .. asked
  /\ program = "dns" /\ m.kind \in {"probe", "last"} =>
       m.tag \in m.n .. asked /\ (m.tag - m.n) % Modulus = 0

Carried(m) ==
  /\ m.kind = "register" => m.n \in 1 .. run
  /\ m.kind = "registered" =>
       /\ m.to \in 1 .. run
       /\ m.to = run /\ ~forgot => peer \in 1 .. run
  /\ m.kind \in {"query", "answer", "probe", "last"} => Names(m)

\* A later query has a later time.
InOrder == \A i, j \in 1 .. asked : i <= j => sentAt[i] <= sentAt[j]

\* The time that rtt_mea.py works with is that of no earlier turn.
TurnIsLast == ts >= 0 => program = "rtt" /\ \A i \in 1 .. asked : sentAt[i] <= ts

\* NAME_LOOKUP_LOG has a query under its own id.
IdsFit == \A i \in 0 .. Modulus - 1 : lookup[i] # 0 => (lookup[i] - 1) % Modulus = i

Inv ==
  /\ TypeOK
  /\ \A m \in net : Carried(m)
  /\ InOrder
  /\ TurnIsLast
  /\ IdsFit
  /\ heard \subseteq 1 .. asked
  /\ AnalysisAgrees
  /\ RegisteredWhileAsking
  /\ DelaysNotOverstated
  /\ AnswersAreMatched

-----------------------------------------------------------------------------

\* The id of a query is an index of NAME_LOOKUP_LOG.
LEMMA IdIsIndex == ASSUME NEW n \in Nat PROVE n % Modulus \in 0 .. Modulus - 1
  BY ConstantsAssumption, SMT

\* Arithmetic of remainders.
LEMMA NoRemainder == 0 % Modulus = 0
  BY ConstantsAssumption, SMT

LEMMA SmallRemainder ==
  ASSUME NEW d \in Nat, d < Modulus, d % Modulus = 0 PROVE d = 0
  BY ConstantsAssumption, SMT

LEMMA Euclid ==
  ASSUME NEW a \in Nat, NEW q \in Int, NEW r \in 0 .. Modulus - 1, a = q * Modulus + r
  PROVE  a % Modulus = r
  BY ConstantsAssumption, SMT

LEMMA SameRemainder ==
  ASSUME NEW a \in Nat, NEW b \in Nat, b <= a, a % Modulus = b % Modulus
  PROVE  (a - b) % Modulus = 0
<1> PICK p \in Int, q \in Int, r \in Int :
      p = a \div Modulus /\ q = b \div Modulus /\ r = a % Modulus
  BY ConstantsAssumption, SMT
<1>1. a = p * Modulus + r /\ b = q * Modulus + r
  BY ConstantsAssumption, SMT
<1> PICK k, d, x, y : k = p - q /\ d = a - b /\ x = p * Modulus /\ y = q * Modulus
  OBVIOUS
<1>2. k \in Int /\ d \in Nat /\ x \in Int /\ y \in Int
  BY ConstantsAssumption, SMT
<1>3. d = x - y
  BY <1>1, <1>2, SMT
<1>4. x - y = k * Modulus
  BY ConstantsAssumption, SMT
<1>5. d = k * Modulus + 0
  BY <1>3, <1>4, <1>2, ConstantsAssumption, SMT
<1>6. 0 \in 0 .. Modulus - 1
  BY ConstantsAssumption, SMT
<1>7. d % Modulus = 0
  BY <1>5, <1>6, <1>2, Euclid
<1> QED
  BY <1>7

LEMMA InvInit == Init => Inv
<1> SUFFICES ASSUME Init PROVE Inv
  OBVIOUS
<1>1. TypeOK
  <2>1. data \in [Queries -> -2 .. MaxTime] /\ sentAt \in [Queries -> 0 .. now]
    BY ConstantsAssumption, SMT DEF Init, Absent
  <2>2. lookup \in [0 .. Modulus - 1 -> 0 .. asked]
    BY SMT DEF Init
  <2>3. forgot \in BOOLEAN /\ net \subseteq Datagrams /\ heard \subseteq Queries
    BY DEF Init
  <2>4. program \in {"aeacus", "dns", "rtt"} /\ phase \in {"connecting", "running", "over"}
    BY DEF Init
  <2>5. /\ run \in 1 .. MaxRuns /\ tries \in 0 .. 3 /\ now \in 0 .. MaxTime
        /\ since \in -1 .. now /\ asked \in 0 .. MaxQueries /\ printed \in 0 .. asked
        /\ ts \in -1 .. now /\ peer \in 0 .. run
    BY ConstantsAssumption, SMT DEF Init
  <2> QED
    BY <2>1, <2>2, <2>3, <2>4, <2>5 DEF TypeOK
<1>2. AnalysisAgrees
  BY SMT DEF Init, AnalysisAgrees, Absent
<1>3. RegisteredWhileAsking /\ DelaysNotOverstated
  BY SMT DEF Init, RegisteredWhileAsking, DelaysNotOverstated
<1>4. AnswersAreMatched
  <2>1. line.names = 0 /\ line.of = 0
    BY DEF Init
  <2> QED
    BY <2>1, NoRemainder, SMT DEF AnswersAreMatched
<1>5. IdsFit
  BY DEF Init, IdsFit
<1> QED
  BY <1>1, <1>2, <1>3, <1>4, <1>5, SMT DEF Init, Inv, InOrder, TurnIsLast

\* What a datagram says stays true while no query and no run is added and the
\* server keeps what it knows.
LEMMA CarriedStays ==
  ASSUME NEW m, Carried(m),
         UNCHANGED <<program, run, asked, lookup>>,
         forgot' \/ (forgot' = forgot /\ (peer' = peer \/ peer' \in 1 .. run))
  PROVE  Carried(m)'
  BY DEF Carried, Names

\* An answer to query n, read under the name u of it or of a later one, leaves
\* the log and its analysis in agreement.
LEMMA LogKeeps ==
  ASSUME Inv, NEW u \in 1 .. asked, NEW n \in 1 .. u,
         LogAnswer(n, u) \/ LogLast(n, u) \/ (ts >= 0 /\ LogRtt(n, u)),
         (u - n) % Modulus = 0,
         UNCHANGED <<asked, sentAt, now>>
  PROVE  /\ data' \in [Queries -> -2 .. MaxTime]
         /\ heard' \subseteq 1 .. asked
         /\ AnalysisAgrees'
         /\ DelaysNotOverstated'
         /\ AnswersAreMatched'
<1>1. u \in Queries /\ n \in Queries /\ n \in 1 .. asked
  BY ConstantsAssumption, SMT DEF Inv, TypeOK, Queries
<1>2. /\ sentAt[u] \in 0 .. now /\ sentAt[n] \in 0 .. now /\ sentAt[n] <= sentAt[u]
      /\ now \in 0 .. MaxTime
      /\ ts >= 0 => ts \in sentAt[u] .. now
  BY <1>1, ConstantsAssumption, SMT DEF Inv, TypeOK, InOrder, TurnIsLast, Queries
<1>3. heard \subseteq 1 .. asked /\ data \in [Queries -> -2 .. MaxTime] /\ AnalysisAgrees
  BY DEF Inv, TypeOK
<1>4. AnswersAreMatched'
  <2>1. line'.names = u /\ line'.of = n
    BY DEF LogAnswer, LogLast, LogRtt, Logs
  <2>2. u \in Nat /\ n \in Nat /\ n <= u /\ u - n \in Nat
    BY <1>1, ConstantsAssumption, SMT DEF Inv, TypeOK
  <2>3. u - n < Modulus => u - n = 0
    BY <2>2, SmallRemainder
  <2>4. u - n < Modulus => u = n
    BY <2>2, <2>3, SMT
  <2> QED
    BY <2>1, <2>2, <2>4 DEF AnswersAreMatched
<1>5. CASE LogAnswer(n, u)
  <2>1. DelaysNotOverstated'
    BY <1>2, <1>5, ConstantsAssumption, SMT DEF LogAnswer, Logs, DelaysNotOverstated
  <2> QED
    BY <2>1, <1>3, <1>5, <1>4 DEF LogAnswer, AnalysisAgrees
<1>6. CASE LogLast(n, u)
  <2>1. DelaysNotOverstated'
    BY <1>2, <1>6, ConstantsAssumption, SMT DEF LogLast, Logs, DelaysNotOverstated
  <2>2. now - sentAt[u] \in 0 .. MaxTime
    BY <1>2, ConstantsAssumption, SMT
  <2> QED
    BY <2>1, <2>2, <1>1, <1>3, <1>6, <1>4, ConstantsAssumption, SMT DEF LogLast, AnalysisAgrees
<1>7. CASE ts >= 0 /\ LogRtt(n, u)
  <2>1. DelaysNotOverstated'
    BY <1>2, <1>7, ConstantsAssumption, SMT DEF LogRtt, Logs, DelaysNotOverstated
  <2>2. ts - sentAt[u] \in 0 .. MaxTime
    BY <1>2, <1>7, ConstantsAssumption, SMT
  <2>3. data' = [data EXCEPT ![u] = ts - sentAt[u]]
    BY <1>1, <1>3, <1>7 DEF LogRtt
  <2> QED
    BY <2>1, <2>2, <2>3, <1>1, <1>3, <1>7, <1>4, ConstantsAssumption, SMT
    DEF LogRtt, AnalysisAgrees
<1> QED
  BY <1>5, <1>6, <1>7, <1>4

\* A query that gets its time now is later than those before, and nothing was
\* heard of it.
LEMMA AskKeeps ==
  ASSUME Inv, asked < MaxQueries, Asks(asked + 1), UNCHANGED <<now, program>>
  PROVE  /\ asked' = asked + 1 /\ asked' \in 1 .. MaxQueries /\ asked' \in Queries
         /\ sentAt' \in [Queries -> 0 .. now] /\ since' \in -1 .. now
         /\ InOrder'
         /\ ts' = -1 \/ (ts' = now /\ program = "rtt") => TurnIsLast'
         /\ asked' \notin heard /\ heard \subseteq 1 .. asked'
<1>1. /\ asked \in 0 .. MaxQueries /\ sentAt \in [Queries -> 0 .. now]
      /\ now \in 0 .. MaxTime /\ heard \subseteq 1 .. asked
  BY DEF Inv, TypeOK
<1>2. /\ asked' = asked + 1 /\ asked' \in 1 .. MaxQueries /\ asked' \in Queries
      /\ since' \in -1 .. now
      /\ asked' \notin heard /\ heard \subseteq 1 .. asked'
  BY <1>1, ConstantsAssumption, SMT DEF Asks, Queries
<1>3. /\ sentAt' = [sentAt EXCEPT ![asked + 1] = now]
      /\ sentAt' \in [Queries -> 0 .. now]
  BY <1>1, <1>2, ConstantsAssumption, SMT DEF Asks
<1>4. \A i \in 1 .. asked : sentAt'[i] = sentAt[i] /\ sentAt[i] \in 0 .. now
  BY <1>1, <1>3, ConstantsAssumption, SMT DEF Queries
<1>5. sentAt'[asked'] = now
  BY <1>1, <1>2, <1>3
<1>6. InOrder'
  <2> SUFFICES ASSUME NEW i \in 1 .. asked', NEW j \in 1 .. asked', i <= j
               PROVE  sentAt'[i] <= sentAt'[j]
    BY DEF InOrder
  <2>1. CASE j = asked'
    BY <2>1, <1>1, <1>2, <1>3, <1>5, ConstantsAssumption, SMT DEF Queries
  <2>2. CASE j # asked'
    <3>1. i \in 1 .. asked /\ j \in 1 .. asked
      BY <2>2, <1>1, <1>2, ConstantsAssumption, SMT
    <3> QED
      BY <3>1, <1>4 DEF Inv, InOrder
  <2> QED
    BY <2>1, <2>2
<1>7. ASSUME ts' = -1 \/ (ts' = now /\ program = "rtt") PROVE TurnIsLast'
  BY <1>1, <1>2, <1>3, <1>7, ConstantsAssumption, SMT DEF TurnIsLast, Queries
<1> QED
  BY <1>2, <1>3, <1>6, <1>7

\* The line of a query of which nothing was heard enters -1.
LEMMA SentKeeps ==
  ASSUME Inv, NEW n \in Queries \ heard, LogSent(n), UNCHANGED heard
  PROVE  data' \in [Queries -> -2 .. MaxTime] /\ AnalysisAgrees'
<1>1. data \in [Queries -> -2 .. MaxTime] /\ AnalysisAgrees
  BY DEF Inv, TypeOK
<1> QED
  BY <1>1, ConstantsAssumption, SMT DEF LogSent, Unanswered, AnalysisAgrees

\* With the next query the datagrams about the earlier ones stay what they are.
LEMMA CarriedAsks ==
  ASSUME Inv, NEW m \in net, asked' = asked + 1,
         lookup' = lookup \/ \E i \in 0 .. Modulus - 1 : lookup' = [lookup EXCEPT ![i] = asked + 1],
         UNCHANGED <<program, run, peer, forgot>>
  PROVE  Carried(m)'
<1>1. Carried(m) /\ asked \in Nat /\ lookup \in [0 .. Modulus - 1 -> 0 .. asked]
  BY ConstantsAssumption, SMT DEF Inv, TypeOK
<1>2. ASSUME Names(m) PROVE Names(m)'
  <2>1. m.n \in 1 .. asked /\ m.n \in 1 .. asked'
    BY <1>1, <1>2, SMT DEF Names
  <2>2. ASSUME program = "dns", m.kind \in {"query", "answer"}
        PROVE  /\ m.tag \in 0 .. Modulus - 1 /\ m.tag = (m.n - 1) % Modulus
               /\ lookup'[m.tag] \in m.n .. asked'
    <3>1. /\ m.tag \in 0 .. Modulus - 1 /\ m.tag = (m.n - 1) % Modulus
          /\ lookup[m.tag] \in m.n .. asked
      BY <1>2, <2>2 DEF Names
    <3>2. CASE lookup' = lookup
      BY <3>1, <3>2, <2>1, <1>1, SMT
    <3>3. ASSUME NEW i \in 0 .. Modulus - 1, lookup' = [lookup EXCEPT ![i] = asked + 1]
          PROVE  lookup'[m.tag] \in m.n .. asked'
      BY <3>1, <3>3, <2>1, <1>1, SMT
    <3> QED
      BY <3>1, <3>2, <3>3
  <2>3. ASSUME program = "dns", m.kind \in {"probe", "last"} 
        PROVE  m.tag \in m.n .. asked' /\ (m.tag - m.n) % Modulus = 0
    <3>1. m.tag \in m.n .. asked /\ (m.tag - m.n) % Modulus = 0
      BY <1>2, <2>3 DEF Names
    <3>2. m.n .. asked \subseteq m.n .. asked'
      BY <1>1, <2>1, SMT
    <3> QED
      BY <3>1, <3>2
  <2> QED
    BY <1>2, <2>1, <2>2, <2>3 DEF Names
<1> QED
  BY <1>1, <1>2 DEF Carried

-----------------------------------------------------------------------------
(* The steps *)

\* Steps that touch no query and no log: the registration and the servers.
\* What they send, if anything, is a datagram as it should be.
LEMMA Sends ==
  ASSUME Inv, NEW m \in Datagrams, net' = net \cup {m}, Carried(m)',
         UNCHANGED <<program, run, asked, lookup, forgot>>,
         peer' = peer \/ peer' \in 1 .. run
  PROVE  net' \subseteq Datagrams /\ \A k \in net' : Carried(k)'
<1>1. \A k \in net : Carried(k)'
  BY CarriedStays DEF Inv
<1> QED
  BY <1>1 DEF Inv, TypeOK

LEMMA DnsSenderStep == ASSUME Inv, DnsSender PROVE Inv'
<1>1. /\ asked \in 0 .. MaxQueries /\ printed \in 0 .. asked /\ now \in 0 .. MaxTime
      /\ lookup \in [0 .. Modulus - 1 -> 0 .. asked]
  BY DEF Inv, TypeOK
<1>2. UNCHANGED <<program, now, phase, run, tries, lookup, ts, peer, forgot, heard, line>>
      /\ program = "aeacus"
  BY DEF DnsSender, serverVars
<1>3. ts' = -1 /\ now' = now /\ program' = program
  BY <1>1, <1>2, ConstantsAssumption, SMT DEF Inv, TypeOK, TurnIsLast
<1>4. RegisteredWhileAsking' /\ DelaysNotOverstated' /\ AnswersAreMatched' /\ IdsFit'
  BY <1>2 DEF Inv, RegisteredWhileAsking, DelaysNotOverstated, AnswersAreMatched, IdsFit
<1>5. ASSUME Due, Asks(asked + 1), printed' = asked + 1, LogSent(asked + 1), UNCHANGED net
      PROVE  Inv'
  <2>1. asked < MaxQueries
    BY <1>5 DEF Due
  <2>2. /\ asked' = asked + 1 /\ asked' \in 1 .. MaxQueries /\ asked' \in Queries
        /\ sentAt' \in [Queries -> 0 .. now] /\ since' \in -1 .. now
        /\ InOrder' /\ TurnIsLast'
        /\ asked' \notin heard /\ heard \subseteq 1 .. asked'
    BY <2>1, <1>2, <1>3, <1>5, AskKeeps
  <2>3. data' \in [Queries -> -2 .. MaxTime] /\ AnalysisAgrees'
    BY <2>2, <1>2, <1>5, SentKeeps
  <2>4. \A m \in net' : Carried(m)'
    BY <2>2, <1>2, <1>5, CarriedAsks
  <2>5. printed' \in 0 .. asked' /\ lookup' \in [0 .. Modulus - 1 -> 0 .. asked']
    BY <2>2, <1>1, <1>2, <1>5, ConstantsAssumption, SMT
  <2>6. TypeOK'
    BY <2>2, <2>3, <2>5, <1>2, <1>5 DEF Inv, TypeOK
  <2> QED
    BY <2>2, <2>3, <2>4, <2>6, <1>2, <1>4 DEF Inv
<1>6. ASSUME printed # 0, printed' = 0, net' = net \cup {AeacusQuery(printed)},
             UNCHANGED <<asked, sentAt, since, data>>
      PROVE  Inv'
  <2>1. printed \in 1 .. asked
    BY <1>1, <1>6, SMT
  <2> PICK q : q = AeacusQuery(printed)
    OBVIOUS
  <2>2. q \in Datagrams
    BY <2>1, ConstantsAssumption, <1>1, SMT DEF AeacusQuery, Datagrams
  <2>3. Carried(q)'
    BY <2>1, <1>2, <1>6 DEF Carried, Names, AeacusQuery
  <2>4. net' \subseteq Datagrams /\ \A k \in net' : Carried(k)'
    BY <2>2, <2>3, <1>2, <1>6, Sends
  <2>5. printed' \in 0 .. asked'
    BY <1>1, <1>6, ConstantsAssumption, SMT
  <2>6. TypeOK'
    BY <2>4, <2>5, <1>2, <1>6 DEF Inv, TypeOK
  <2> QED
    BY <2>4, <2>6, <1>2, <1>4, <1>6 DEF Inv, InOrder, TurnIsLast, AnalysisAgrees
<1> QED
  BY <1>5, <1>6 DEF DnsSender

LEMMA DnsAsksStep == ASSUME Inv, DnsAsks PROVE Inv'
<1> PICK id, q : /\ id = asked % Modulus
                  /\ q = [kind |-> "query", n |-> asked + 1, tag |-> id, to |-> 0]
  OBVIOUS
<1>1. /\ asked \in 0 .. MaxQueries /\ printed \in 0 .. asked /\ now \in 0 .. MaxTime
      /\ lookup \in [0 .. Modulus - 1 -> 0 .. asked]
  BY DEF Inv, TypeOK
<1>2. /\ UNCHANGED <<program, now, phase, run, tries, printed, ts, peer, forgot, heard, line>>
      /\ program = "dns" /\ asked < MaxQueries
      /\ Asks(asked + 1) /\ LogSent(asked + 1)
      /\ net' = net \cup {q} /\ lookup' = [lookup EXCEPT ![id] = asked + 1]
  BY DEF DnsAsks, serverVars, Due
<1>3. ts' = -1 /\ now' = now /\ program' = program
  BY <1>1, <1>2, ConstantsAssumption, SMT DEF Inv, TypeOK, TurnIsLast
<1>4. id \in 0 .. Modulus - 1
  <2>1. asked \in Nat
    BY <1>1, ConstantsAssumption, SMT
  <2> QED
    BY <2>1, IdIsIndex
<1>5. /\ asked' = asked + 1 /\ asked' \in 1 .. MaxQueries /\ asked' \in Queries
      /\ sentAt' \in [Queries -> 0 .. now] /\ since' \in -1 .. now
      /\ InOrder' /\ TurnIsLast'
      /\ asked' \notin heard /\ heard \subseteq 1 .. asked'
  BY <1>2, <1>3, AskKeeps
<1>6. data' \in [Queries -> -2 .. MaxTime] /\ AnalysisAgrees'
  BY <1>2, <1>5, SentKeeps
<1>7. lookup' \in [0 .. Modulus - 1 -> 0 .. asked'] /\ lookup'[id] = asked'
      /\ printed' \in 0 .. asked'
  <2>1. 0 .. asked \subseteq 0 .. asked' /\ asked' \in 0 .. asked'
    BY <1>1, <1>5, ConstantsAssumption, SMT
  <2>2. lookup' = [lookup EXCEPT ![id] = asked'] /\ printed' = printed
    BY <1>2, <1>5
  <2> QED
    BY <2>1, <2>2, <1>1, <1>4
<1>8. q \in Datagrams
  <2>1. asked + 1 \in Nat /\ id \in Nat
    BY <1>1, <1>4, ConstantsAssumption, SMT
  <2> QED
    BY <2>1, SMT DEF Datagrams
<1>9. Carried(q)'
  <2>1. q.n = asked' /\ q.tag = id /\ q.kind = "query"
    BY <1>5
  <2>2. asked' \in asked' .. asked'
    BY <1>5, ConstantsAssumption, SMT
  <2>3. asked' \in 1 .. asked' /\ asked' - 1 = asked
    BY <1>1, <1>5, ConstantsAssumption, SMT
  <2>4. id = (asked' - 1) % Modulus
    BY <2>3
  <2> QED
    BY <2>1, <2>2, <2>3, <2>4, <1>2, <1>4, <1>7 DEF Carried, Names
<1>10. \A m \in net : Carried(m)'
  BY <1>2, <1>4, <1>5, CarriedAsks
<1>11. net' \subseteq Datagrams /\ \A m \in net' : Carried(m)'
  BY <1>2, <1>8, <1>9, <1>10 DEF Inv, TypeOK
<1>12. TypeOK'
  BY <1>2, <1>5, <1>6, <1>7, <1>11 DEF Inv, TypeOK
<1>13. IdsFit'
  <2> SUFFICES ASSUME NEW i \in 0 .. Modulus - 1, lookup'[i] # 0
               PROVE  (lookup'[i] - 1) % Modulus = i
    BY DEF IdsFit
  <2>1. CASE i = id
    <3>1. lookup'[i] - 1 = asked
      BY <2>1, <1>1, <1>5, <1>7, ConstantsAssumption, SMT
    <3> QED
      BY <2>1, <3>1
  <2>2. CASE i # id
    BY <2>2, <1>1, <1>2 DEF Inv, IdsFit
  <2> QED
    BY <2>1, <2>2
<1> QED
  BY <1>2, <1>5, <1>6, <1>11, <1>12, <1>13
  DEF Inv, RegisteredWhileAsking, DelaysNotOverstated, AnswersAreMatched

LEMMA RttTurnStep == ASSUME Inv, RttTurn PROVE Inv'
<1> PICK q : q = [kind |-> "query", n |-> asked + 1, tag |-> asked + 1, to |-> 0]
  OBVIOUS
<1>1. /\ asked \in 0 .. MaxQueries /\ printed \in 0 .. asked /\ now \in 0 .. MaxTime
      /\ lookup \in [0 .. Modulus - 1 -> 0 .. asked] /\ sentAt \in [Queries -> 0 .. now]
  BY DEF Inv, TypeOK
<1>2. /\ UNCHANGED <<program, now, phase, run, tries, printed, lookup, peer, forgot, heard, line>>
      /\ program = "rtt" /\ ts' = now
  BY DEF RttTurn, serverVars
<1>3. ts' \in -1 .. now'
  BY <1>1, <1>2, ConstantsAssumption, SMT
<1>4. RegisteredWhileAsking' /\ DelaysNotOverstated' /\ AnswersAreMatched' /\ IdsFit'
  BY <1>2 DEF Inv, RegisteredWhileAsking, DelaysNotOverstated, AnswersAreMatched, IdsFit
<1>5. ASSUME Due, Asks(asked + 1), LogSent(asked + 1), net' = net \cup {q} PROVE Inv'
  <2>1. asked < MaxQueries
    BY <1>5 DEF Due
  <2>2. /\ asked' = asked + 1 /\ asked' \in 1 .. MaxQueries /\ asked' \in Queries
        /\ sentAt' \in [Queries -> 0 .. now] /\ since' \in -1 .. now
        /\ InOrder' /\ TurnIsLast'
        /\ asked' \notin heard /\ heard \subseteq 1 .. asked'
    BY <2>1, <1>2, <1>5, AskKeeps
  <2>3. data' \in [Queries -> -2 .. MaxTime] /\ AnalysisAgrees'
    BY <2>2, <1>2, <1>5, SentKeeps
  <2>4. q \in Datagrams
    BY <1>1, ConstantsAssumption, SMT DEF Datagrams
  <2>5. Carried(q)'
    <3>1. asked' \in 1 .. asked'
      BY <2>2, ConstantsAssumption, SMT
    <3> QED
      BY <3>1, <2>2, <1>2 DEF Carried, Names
  <2>6. \A m \in net : Carried(m)'
    BY <2>2, <1>2, CarriedAsks
  <2>7. net' \subseteq Datagrams /\ \A m \in net' : Carried(m)'
    BY <1>5, <2>4, <2>5, <2>6 DEF Inv, TypeOK
  <2>8. printed' \in 0 .. asked' /\ lookup' \in [0 .. Modulus - 1 -> 0 .. asked']
    BY <2>2, <1>1, <1>2, ConstantsAssumption, SMT
  <2>9. TypeOK'
    BY <2>2, <2>3, <2>7, <2>8, <1>2, <1>3 DEF Inv, TypeOK
  <2> QED
    BY <2>2, <2>3, <2>7, <2>9, <1>2, <1>4 DEF Inv
<1>6. ASSUME UNCHANGED <<asked, sentAt, since, data, net>> PROVE Inv'
  <2>1. TurnIsLast'
    BY <1>1, <1>2, <1>6, ConstantsAssumption, SMT DEF TurnIsLast, Queries
  <2>2. TypeOK'
    BY <1>2, <1>3, <1>6 DEF Inv, TypeOK
  <2> QED
    BY <2>1, <2>2, <1>2, <1>4, <1>6, CarriedStays DEF Inv, InOrder, AnalysisAgrees
<1> QED
  BY <1>5, <1>6 DEF RttTurn

\* What was read of query n under the name u goes to the log; what is sent, if
\* anything, is a datagram as it should be.
LEMMA ReadStep ==
  ASSUME Inv, NEW u \in 1 .. asked, NEW n \in 1 .. u,
         LogAnswer(n, u) \/ LogLast(n, u) \/ (ts >= 0 /\ LogRtt(n, u)),
         (u - n) % Modulus = 0,
         UNCHANGED <<program, now, phase, run, tries, since, asked, sentAt, printed, lookup,
                     peer, forgot>>,
         ts' = ts \/ ts' = -1,
         net' \subseteq Datagrams, \A k \in net' : Carried(k)'
  PROVE  Inv'
<1>1. /\ data' \in [Queries -> -2 .. MaxTime] /\ heard' \subseteq 1 .. asked
      /\ AnalysisAgrees' /\ DelaysNotOverstated' /\ AnswersAreMatched'
  BY LogKeeps
<1>2. ts' \in -1 .. now' /\ TurnIsLast' /\ heard' \subseteq Queries
  <2>1. ts \in -1 .. now /\ now \in 0 .. MaxTime /\ asked \in 0 .. MaxQueries /\ TurnIsLast
    BY DEF Inv, TypeOK
  <2>2. ts' \in -1 .. now'
    BY <2>1, ConstantsAssumption, SMT
  <2>3. TurnIsLast'
    BY <2>1, SMT DEF TurnIsLast
  <2>4. 1 .. asked \subseteq Queries
    BY <2>1, ConstantsAssumption, SMT DEF Queries
  <2> QED
    BY <2>2, <2>3, <2>4, <1>1
<1>3. TypeOK'
  BY <1>1, <1>2 DEF Inv, TypeOK
<1> QED
  BY <1>1, <1>2, <1>3 DEF Inv, InOrder, RegisteredWhileAsking, IdsFit

LEMMA Reads == ASSUME Inv, NEW m \in net PROVE
  /\ DnsAnswer(m) => Inv'
  /\ EchoRead(m) => Inv'
  /\ HandshakeRead(m) => Inv'
  /\ RttRead(m) => Inv'
<1>1. Carried(m) /\ m \in Datagrams /\ asked \in Nat
  BY ConstantsAssumption, SMT DEF Inv, TypeOK
<1>2. ASSUME UNCHANGED <<program, run, asked, lookup, peer, forgot, net>>
      PROVE  net' \subseteq Datagrams /\ \A k \in net' : Carried(k)'
  BY <1>2, CarriedStays DEF Inv, TypeOK
<1>3. ASSUME DnsAnswer(m) PROVE Inv'
  <2> PICK u, probe : /\ u = lookup[m.tag]
                      /\ probe = [kind |-> "probe", n |-> m.n, tag |-> u, to |-> 0]
    OBVIOUS
  <2>1. m.n \in 1 .. asked /\ u \in m.n .. asked
    BY <1>1, <1>3 DEF DnsAnswer, Carried, Names
  <2>2. u \in 1 .. asked /\ m.n \in 1 .. u
    BY <2>1, <1>1, SMT
  <2>3. (u - m.n) % Modulus = 0
    <3> PICK a, b : a = u - 1 /\ b = m.n - 1
      OBVIOUS
    <3>1. a % Modulus = m.tag /\ b % Modulus = m.tag
      <4>1. m.tag \in 0 .. Modulus - 1 /\ m.tag = (m.n - 1) % Modulus
        BY <1>1, <1>3 DEF DnsAnswer, Carried, Names
      <4>2. u # 0
        BY <2>1, SMT
      <4> QED
        BY <4>1, <4>2 DEF Inv, IdsFit
    <3>2. a \in Nat /\ b \in Nat /\ b <= a /\ a - b = u - m.n
      BY <2>1, <1>1, SMT
    <3> QED
      BY <3>1, <3>2, SameRemainder
  <2>4. /\ LogAnswer(m.n, u) /\ net' \in {net \cup {probe}, net}
        /\ UNCHANGED <<program, now, phase, run, tries, since, asked, sentAt, printed, lookup,
                       ts, peer, forgot>>
        /\ program = "dns"
    BY <1>3 DEF DnsAnswer, clientVars, serverVars
  <2>5. probe \in Datagrams
    BY <2>1, <1>1, SMT DEF Datagrams
  <2>6. Carried(probe)'
    BY <2>1, <2>4, <2>3 DEF Carried, Names
  <2>7. net' \subseteq Datagrams /\ \A k \in net' : Carried(k)'
    <3>1. CASE net' = net \cup {probe}
      BY <3>1, <2>4, <2>5, <2>6, Sends
    <3>2. CASE net' = net
      BY <3>2, <2>4, <1>2
    <3> QED
      BY <3>1, <3>2, <2>4
  <2> QED
    BY <2>2, <2>4, <2>7, <2>3, ReadStep
<1>4. ASSUME EchoRead(m) PROVE Inv'
  <2>1. m.n \in 1 .. asked /\ m.tag \in m.n .. asked /\ (m.tag - m.n) % Modulus = 0
    BY <1>1, <1>4 DEF EchoRead, Carried, Names
  <2>2. m.tag \in 1 .. asked /\ m.n \in 1 .. m.tag
    BY <2>1, <1>1, SMT
  <2>3. /\ LogLast(m.n, m.tag)
        /\ UNCHANGED <<program, now, phase, run, tries, since, asked, sentAt, printed, lookup,
                       ts, peer, forgot, net>>
    BY <1>4 DEF EchoRead, clientVars, serverVars
  <2> QED
    BY <2>1, <2>2, <2>3, <1>2, ReadStep
<1>5. ASSUME HandshakeRead(m) PROVE Inv'
  <2>1. m.n \in 1 .. asked /\ m.tag = m.n
    BY <1>1, <1>5 DEF HandshakeRead, Carried, Names
  <2>2. m.tag \in 1 .. asked /\ m.n \in 1 .. m.tag /\ m.tag - m.n = 0
    BY <2>1, <1>1, SMT
  <2>3. /\ LogLast(m.n, m.tag)
        /\ UNCHANGED <<program, now, phase, run, tries, since, asked, sentAt, printed, lookup,
                       ts, peer, forgot, net>>
    BY <1>5 DEF HandshakeRead, clientVars, serverVars
  <2> QED
    BY <2>2, <2>3, <1>2, NoRemainder, ReadStep
<1>6. ASSUME RttRead(m) PROVE Inv'
  <2>1. program = "rtt"
    BY <1>6 DEF RttRead, Inv, TurnIsLast
  <2>2. m.n \in 1 .. asked /\ m.tag = m.n
    BY <2>1, <1>1, <1>6 DEF RttRead, Carried, Names
  <2>3. m.tag \in 1 .. asked /\ m.n \in 1 .. m.tag /\ m.tag - m.n = 0
    BY <2>2, <1>1, SMT
  <2>4. /\ ts >= 0 /\ LogRtt(m.n, m.tag) /\ ts' = -1
        /\ UNCHANGED <<program, now, phase, run, tries, since, asked, sentAt, printed, lookup,
                       peer, forgot, net>>
    BY <1>6 DEF RttRead, serverVars
  <2> QED
    BY <2>3, <2>4, <1>2, NoRemainder, ReadStep
<1> QED
  BY <1>3, <1>4, <1>5, <1>6

\* Steps that leave queries and logs alone, and send at most one datagram.
LEMMA QuietStep ==
  ASSUME Inv,
         UNCHANGED <<program, asked, sentAt, lookup, data, heard, line>>,
         phase' \in {"connecting", "running", "over"}, run' = run, tries' \in 0 .. 3,
         now' \in now .. MaxTime, since' = since, printed' = printed \/ printed' = 0,
         ts' = ts \/ ts' = -1,
         peer' \in 0 .. run, forgot' \in BOOLEAN,
         net' \subseteq Datagrams, \A k \in net' : Carried(k)', RegisteredWhileAsking'
  PROVE  Inv'
<1>1. /\ now \in 0 .. MaxTime /\ since \in -1 .. now /\ ts \in -1 .. now
      /\ asked \in 0 .. MaxQueries /\ printed \in 0 .. asked
      /\ sentAt \in [Queries -> 0 .. now]
  BY DEF Inv, TypeOK
<1>2. /\ now' \in 0 .. MaxTime /\ since' \in -1 .. now' /\ ts' \in -1 .. now'
      /\ printed' \in 0 .. asked'
  BY <1>1, ConstantsAssumption, SMT
<1>3. sentAt' \in [Queries -> 0 .. now']
  <2>1. 0 .. now \subseteq 0 .. now'
    BY <1>1, ConstantsAssumption, SMT
  <2> QED
    BY <2>1, <1>1
<1>4. TurnIsLast'
  BY <1>1, ConstantsAssumption, SMT DEF Inv, TurnIsLast
<1>5. TypeOK'
  BY <1>2, <1>3 DEF Inv, TypeOK
<1> QED
  BY <1>4, <1>5
  DEF Inv, InOrder, IdsFit, AnalysisAgrees, DelaysNotOverstated, AnswersAreMatched
LEMMA RttIdleStep == ASSUME Inv, RttIdle PROVE Inv'
<1>1. /\ UNCHANGED <<program, now, phase, run, tries, since, asked, sentAt, printed, lookup,
                     peer, forgot, net, data, heard, line>>
      /\ ts' = -1
  BY DEF RttIdle, serverVars, logVars
<1>2. now' \in now .. MaxTime
  BY <1>1, ConstantsAssumption, SMT DEF Inv, TypeOK
<1>3. net' \subseteq Datagrams /\ (\A k \in net' : Carried(k)') /\ RegisteredWhileAsking'
  BY <1>1, CarriedStays DEF Inv, TypeOK, RegisteredWhileAsking
<1> QED
  BY <1>1, <1>2, <1>3, QuietStep DEF Inv, TypeOK

LEMMA RegisterStep == ASSUME Inv, Register PROVE Inv'
<1> PICK q : q = [kind |-> "register", n |-> run, tag |-> 0, to |-> 0]
  OBVIOUS
<1>1. /\ UNCHANGED <<program, now, phase, run, since, asked, sentAt, printed, lookup, ts,
                     peer, forgot, data, heard, line>>
      /\ tries < 3 /\ tries' = tries + 1 /\ net' = net \cup {q}
  BY DEF Register, serverVars, logVars
<1>2. now' \in now .. MaxTime /\ tries' \in 0 .. 3 /\ run \in 1 .. run /\ run \in Nat
  BY <1>1, ConstantsAssumption, SMT DEF Inv, TypeOK
<1>3. q \in Datagrams /\ Carried(q)'
  BY <1>1, <1>2 DEF Datagrams, Carried
<1>4. net' \subseteq Datagrams /\ \A k \in net' : Carried(k)'
  BY <1>1, <1>3, Sends
<1>5. RegisteredWhileAsking'
  BY <1>1 DEF Inv, RegisteredWhileAsking
<1> QED
  BY <1>1, <1>2, <1>4, <1>5, QuietStep DEF Inv, TypeOK

LEMMA StopStep == ASSUME Inv, Stop PROVE Inv'
<1>1. /\ UNCHANGED <<program, now, run, tries, since, asked, sentAt, lookup,
                     peer, forgot, net, data, heard, line>>
      /\ phase' = "over" /\ printed' = 0 /\ ts' = -1
  BY DEF Stop, serverVars, logVars
<1>2. now' \in now .. MaxTime
  BY <1>1, ConstantsAssumption, SMT DEF Inv, TypeOK
<1>3. net' \subseteq Datagrams /\ (\A k \in net' : Carried(k)') /\ RegisteredWhileAsking'
  BY <1>1, CarriedStays DEF Inv, TypeOK, RegisteredWhileAsking
<1> QED
  BY <1>1, <1>2, <1>3, QuietStep DEF Inv, TypeOK

LEMMA NextRunStep == ASSUME Inv, NextRun PROVE Inv'
<1>1. /\ UNCHANGED <<program, now, asked, sentAt, printed, lookup, ts, peer, net, line>>
      /\ program = "aeacus" /\ run < MaxRuns /\ run' = run + 1
      /\ tries' = 0 /\ phase' = "connecting" /\ since' = -1
      /\ data' = [n \in Queries |-> Absent] /\ heard' = {} /\ forgot' = FALSE
  BY DEF NextRun
<1>2. /\ run \in 1 .. MaxRuns /\ now \in 0 .. MaxTime /\ peer \in 0 .. run
  BY DEF Inv, TypeOK
<1>3. /\ run' \in 1 .. MaxRuns /\ tries' \in 0 .. 3 /\ since' \in -1 .. now' /\ peer' \in 0 .. run'
      /\ 1 .. run \subseteq 1 .. run' /\ run' \notin 1 .. run
  BY <1>1, <1>2, ConstantsAssumption, SMT
<1>4. data' \in [Queries -> -2 .. MaxTime] /\ AnalysisAgrees'
  BY <1>1, ConstantsAssumption, SMT DEF Absent, AnalysisAgrees
<1>5. ASSUME NEW m \in net PROVE Carried(m)'
  <2>1. Carried(m)
    BY DEF Inv
  <2> QED
    BY <2>1, <1>1, <1>3 DEF Carried, Names
<1>6. TypeOK'
  BY <1>1, <1>3, <1>4 DEF Inv, TypeOK
<1> QED
  BY <1>1, <1>4, <1>5, <1>6
  DEF Inv, InOrder, TurnIsLast, IdsFit, RegisteredWhileAsking, DelaysNotOverstated,
      AnswersAreMatched

LEMMA RegisteredStep == ASSUME Inv, NEW m \in net, Registered(m) PROVE Inv'
<1>1. /\ UNCHANGED <<program, now, run, tries, since, asked, sentAt, printed, lookup, ts,
                     peer, forgot, net, data, heard, line>>
      /\ phase' = "running" /\ m.kind = "registered" /\ m.to = run
  BY DEF Registered, serverVars, logVars
<1>2. now' \in now .. MaxTime
  BY <1>1, ConstantsAssumption, SMT DEF Inv, TypeOK
<1>3. net' \subseteq Datagrams /\ \A k \in net' : Carried(k)'
  BY <1>1, CarriedStays DEF Inv, TypeOK
<1>4. RegisteredWhileAsking'
  BY <1>1 DEF Inv, Carried, RegisteredWhileAsking
<1> QED
  BY <1>1, <1>2, <1>3, <1>4, QuietStep DEF Inv, TypeOK

LEMMA ServerStep ==
  ASSUME Inv, NEW m \in net,
         ServerRegisters(m) \/ ServerHandshakes(m) \/ ServerAnswers(m)
  PROVE  Inv'
<1>1. UNCHANGED <<program, now, phase, run, tries, since, asked, sentAt, printed, lookup, ts,
                  data, heard, line>>
  BY DEF ServerRegisters, ServerHandshakes, ServerAnswers, clientVars, logVars
<1>2. now' \in now .. MaxTime
  BY <1>1, ConstantsAssumption, SMT DEF Inv, TypeOK
<1>3. m \in Datagrams /\ Carried(m) /\ run \in Nat /\ peer \in 0 .. run /\ asked \in Nat
  BY ConstantsAssumption, SMT DEF Inv, TypeOK
<1> SUFFICES /\ peer' \in 0 .. run /\ forgot' \in BOOLEAN
             /\ net' \subseteq Datagrams /\ (\A k \in net' : Carried(k)')
             /\ RegisteredWhileAsking'
  BY <1>1, <1>2, QuietStep DEF Inv, TypeOK
<1>4. CASE ServerRegisters(m)
  <2> PICK q : q = [kind |-> "registered", n |-> m.n, tag |-> 0, to |-> m.n]
    OBVIOUS
  <2>1. m.kind = "register" /\ peer' = m.n /\ net' = net \cup {q} /\ forgot' = forgot
    BY <1>4 DEF ServerRegisters
  <2>2. m.n \in 1 .. run /\ m.n \in 0 .. run
    BY <2>1, <1>3, SMT DEF Carried
  <2>3. q \in Datagrams /\ Carried(q)'
    BY <2>1, <2>2, <1>1, <1>3 DEF Datagrams, Carried
  <2>4. net' \subseteq Datagrams /\ \A k \in net' : Carried(k)'
    BY <2>1, <2>2, <2>3, <1>1, Sends
  <2> QED
    BY <2>1, <2>2, <2>4, <1>1 DEF Inv, TypeOK, RegisteredWhileAsking
<1>5. CASE ServerHandshakes(m)
  <2> PICK q : q = [kind |-> "last", n |-> m.n, tag |-> m.tag, to |-> peer]
    OBVIOUS
  <2>1. /\ program = "aeacus" /\ m.kind = "query" /\ net' = net \cup {q}
        /\ UNCHANGED <<peer, forgot>>
    BY <1>5 DEF ServerHandshakes, serverVars
  <2>2. peer \in Nat
    BY <1>3, SMT
  <2>3. q \in Datagrams
    BY <2>2, <1>3 DEF Datagrams
  <2>4. Carried(q)'
    BY <2>1, <1>1, <1>3 DEF Carried, Names
  <2>5. net' \subseteq Datagrams /\ \A k \in net' : Carried(k)'
    BY <2>1, <2>3, <2>4, <1>1, Sends
  <2> QED
    BY <2>1, <2>5, <1>1 DEF Inv, TypeOK, RegisteredWhileAsking
<1>6. CASE ServerAnswers(m)
  <2> PICK q : q = [m EXCEPT !.kind = IF program = "dns" /\ m.kind = "query" THEN "answer" ELSE "last",
                             !.to = run]
    OBVIOUS
  <2>1. /\ \/ program = "dns" /\ m.kind \in {"query", "probe"}
           \/ program = "rtt" /\ m.kind = "query"
        /\ net' = net \cup {q}
        /\ UNCHANGED <<peer, forgot>>
    BY <1>6 DEF ServerAnswers, serverVars
  <2>2. q \in Datagrams /\ q.n = m.n /\ q.tag = m.tag
        /\ q.kind = IF program = "dns" /\ m.kind = "query" THEN "answer" ELSE "last"
    BY <1>3 DEF Datagrams
  <2>3. Carried(q)'
    BY <2>1, <2>2, <1>1, <1>3 DEF Carried, Names
  <2>4. net' \subseteq Datagrams /\ \A k \in net' : Carried(k)'
    BY <2>1, <2>2, <2>3, <1>1, Sends
  <2> QED
    BY <2>1, <2>4, <1>1 DEF Inv, TypeOK, RegisteredWhileAsking
<1> QED
  BY <1>4, <1>5, <1>6

LEMMA RestartsStep == ASSUME Inv, ServerRestarts PROVE Inv'
<1>1. /\ UNCHANGED <<program, now, phase, run, tries, since, asked, sentAt, printed, lookup, ts,
                     net, data, heard, line>>
      /\ peer' = 0 /\ forgot' = TRUE
  BY DEF ServerRestarts, clientVars, logVars
<1>2. now' \in now .. MaxTime /\ peer' \in 0 .. run
  BY <1>1, ConstantsAssumption, SMT DEF Inv, TypeOK
<1>3. net' \subseteq Datagrams /\ (\A k \in net' : Carried(k)') /\ RegisteredWhileAsking'
  BY <1>1, CarriedStays DEF Inv, TypeOK, RegisteredWhileAsking
<1> QED
  BY <1>1, <1>2, <1>3, QuietStep DEF Inv, TypeOK

LEMMA TickStep == ASSUME Inv, Tick PROVE Inv'
<1>1. /\ UNCHANGED <<program, phase, run, tries, since, asked, sentAt, printed, lookup, ts,
                     peer, forgot, net, data, heard, line>>
      /\ now < MaxTime /\ now' = now + 1
  BY DEF Tick, clientVars, serverVars, logVars
<1>2. now' \in now .. MaxTime
  BY <1>1, ConstantsAssumption, SMT DEF Inv, TypeOK
<1>3. net' \subseteq Datagrams /\ (\A k \in net' : Carried(k)') /\ RegisteredWhileAsking'
  BY <1>1, CarriedStays DEF Inv, TypeOK, RegisteredWhileAsking
<1> QED
  BY <1>1, <1>2, <1>3, QuietStep DEF Inv, TypeOK

LEMMA InvStep == Inv /\ [Next]_vars => Inv'
<1> SUFFICES ASSUME Inv, [Next]_vars PROVE Inv'
  OBVIOUS
<1>1. CASE UNCHANGED vars
  <2>1. UNCHANGED <<program, now, phase, run, tries, since, asked, sentAt, printed, lookup, ts,
                    peer, forgot, net, data, heard, line>>
    BY <1>1 DEF vars, clientVars, serverVars, logVars
  <2>2. now' \in now .. MaxTime
    BY <2>1, ConstantsAssumption, SMT DEF Inv, TypeOK
  <2>3. net' \subseteq Datagrams /\ (\A k \in net' : Carried(k)') /\ RegisteredWhileAsking'
    BY <2>1, CarriedStays DEF Inv, TypeOK, RegisteredWhileAsking
  <2> QED
    BY <2>1, <2>2, <2>3, QuietStep DEF Inv, TypeOK
<1>2. CASE DnsSender \/ DnsAsks \/ RttTurn \/ RttIdle
  BY <1>2, DnsSenderStep, DnsAsksStep, RttTurnStep, RttIdleStep
<1>3. CASE Register \/ Stop \/ NextRun \/ ServerRestarts \/ Tick
  BY <1>3, RegisterStep, StopStep, NextRunStep, RestartsStep, TickStep
<1>4. ASSUME NEW m \in net,
             \/ DnsAnswer(m) \/ EchoRead(m) \/ HandshakeRead(m) \/ RttRead(m) \/ Registered(m)
             \/ ServerRegisters(m) \/ ServerHandshakes(m) \/ ServerAnswers(m)
      PROVE  Inv'
  BY <1>4, Reads, RegisteredStep, ServerStep
<1> QED
  BY <1>1, <1>2, <1>3, <1>4 DEF Next

LEMMA Invariance == Spec => []Inv
  BY InvInit, InvStep, PTL DEF Spec

-----------------------------------------------------------------------------

\* The programs keep their type, for any number of queries, ids and runs.
THEOREM TypeCorrect == Spec => []TypeOK
<1>1. Inv => TypeOK
  BY DEF Inv
<1> QED
  BY <1>1, Invariance, PTL

\* An answer is logged under its query, unless the DNS ids have come round
\* (fake_client_dns.py:60-72).
THEOREM Matched == Spec => []AnswersAreMatched
<1>1. Inv => AnswersAreMatched
  BY DEF Inv
<1> QED
  BY <1>1, Invariance, PTL

\* A log never has a delay below zero or above the true one.
THEOREM DelaysRight == Spec => []DelaysNotOverstated
<1>1. Inv => DelaysNotOverstated
  BY DEF Inv
<1> QED
  BY <1>1, Invariance, PTL

\* The analysis counts as answered just the queries whose answer was read, though
\* two processes write the log (analysis/handshake_delay.py:18-31).
THEOREM AnalysisRight == Spec => []AnalysisAgrees
<1>1. Inv => AnalysisAgrees
  BY DEF Inv
<1> QED
  BY <1>1, Invariance, PTL

\* Queries are sent only while the server knows a client, or has restarted
\* (fake_client_aeacus.py:40-70, fake_server_aeacus.py:17-44).
THEOREM RegistrationFirst == Spec => []RegisteredWhileAsking
<1>1. Inv => RegisteredWhileAsking
  BY DEF Inv
<1> QED
  BY <1>1, Invariance, PTL
=============================================================================
