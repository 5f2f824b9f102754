-------------------------- MODULE QuicClientsProofs ---------------------------
(***************************************************************************)
(* Proofs about QuicClients, for any deadline and any number of queries:   *)
(* typing, and every safety property of its run.                           *)
(*                                                                         *)
(* The argument follows the frames.  Each step of the exchange is done, or *)
(* its frame is queued, in flight or lost (Kept): the loops move a frame   *)
(* from one place to the next and drop none.  The close is queued or sent  *)
(* once the connection is closing, and nowhere before (Closed).            *)
(***************************************************************************)
EXTENDS QuicClients, FiniteSetTheorems, TLAPS

Frames == ClientFrames \cup ServerFrames \cup {Nothing}

\* The frames about queries are about those that were asked; the dummy and the
\* tester ask once, and the dummy once more in early data.
Numbered ==
  /\ \A i \in 1 .. MaxQueries :
       Query(i) \in queued \cup up \cup lost \/ Echo(i) \in down \cup lost => i <= asked
  /\ program # "migration" => asked <= (IF phase = "complete" THEN 2 ELSE 1)
  /\ program = "migration" => peer = "echo"

\* Where the close is, and that a connection that was closed sends it; what a
\* server sends that ends the connection itself.
Closed ==
  /\ Close \in queued \cup up \cup lost => closing
  /\ server = "gone" /\ ~EndsItself => closing
  /\ closing /\ ~EndsItself => Close \in queued \/ CloseSent
  /\ Refuse \in down \cup lost => peer = "refuses"
  /\ Versions \in down \cup lost => peer = "versions"
  /\ Accept \in down \cup lost => ~EndsItself
  /\ EndsItself => phase = "hello"

\* The migration counts its queries and closes nothing; the rest is of
\* QueriesPaced.
Paced ==
  program = "migration" =>
    /\ index = asked /\ ~closing /\ asked <= now + 1
    /\ ~resumed /\ phase # "complete" => \A i \in 1 .. asked : Query(i) \in queued
    /\ resumed /\ phase = "hello" => \A i \in 1 .. asked : Query(i) \in queued => i = asked

\* With the echo server, each step of the exchange is done or on its way, if only
\* as a loss.
Kept ==
  peer = "echo" /\ ~closing =>
    /\ server = "none" => Hello \in queued \cup up \cup lost
    /\ server # "none" => /\ phase = "hello" => Accept \in down \cup lost
                          /\ phase # "complete" => Finish \in down \cup lost
    /\ \A i \in 1 .. asked : \/ Query(i) \in queued \cup up \cup lost
                             \/ Echo(i) \in down \cup lost
                             \/ i \in got

Inv ==
  TypeOK /\ Numbered /\ Closed /\ Kept /\ VerdictIsPhase /\ Paced /\ CloseIsSent

\* The first component of a frame tells what it is.
LEMMA KindOf ==
  ASSUME NEW f \in Frames
  PROVE /\ f[1] = "hello" <=> f = Hello
        /\ f[1] = "accept" <=> f = Accept
        /\ f[1] = "done" <=> f = Done
        /\ f[1] = "finish" <=> f = Finish
        /\ f[1] = "close" <=> f = Close
        /\ f[1] = "refuse" <=> f = Refuse
        /\ f[1] = "versions" <=> f = Versions
        /\ f[1] = "ticket" <=> f = Ticket
        /\ f[1] = "nothing" <=> f = Nothing
        /\ f[1] = "query" <=> \E i \in 1 .. MaxQueries : f = Query(i)
        /\ f[1] = "echo" <=> \E i \in 1 .. MaxQueries : f = Echo(i)
        /\ f \in ClientFrames <=> f[1] \in {"hello", "done", "close", "query"}
        /\ f \in ServerFrames <=> f[1] \in {"accept", "finish", "refuse", "versions", "ticket", "echo"}
  BY DEF Hello, Accept, Done, Finish, Close, Refuse, Versions, Ticket,
         Nothing, Query, Echo, Frames, ClientFrames, ServerFrames

\* The frames differ, and which end sends which.
LEMMA FrameKinds ==
  /\ {Hello, Done, Close} \subseteq ClientFrames
  /\ {Accept, Finish, Refuse, Versions, Ticket} \subseteq ServerFrames
  /\ \A i \in 1 .. MaxQueries : Query(i) \in ClientFrames /\ Echo(i) \in ServerFrames
  /\ ClientFrames \cap ServerFrames = {}
  /\ Nothing \notin ClientFrames \cup ServerFrames
  /\ Hello[1] = "hello" /\ Accept[1] = "accept" /\ Done[1] = "done" /\ Finish[1] = "finish"
  /\ Close[1] = "close" /\ Refuse[1] = "refuse" /\ Ticket[1] = "ticket" /\ Nothing[1] = "nothing"
  /\ Versions[1] = "versions"
  /\ \A i \in Nat : Query(i)[1] = "query" /\ Echo(i)[1] = "echo" /\ Query(i)[2] = i /\ Echo(i)[2] = i
  BY DEF Hello, Accept, Done, Finish, Close, Refuse, Versions, Ticket,
         Nothing, Query, Echo, ClientFrames, ServerFrames

LEMMA Bounds == MaxQueries \in Nat /\ MaxQueries >= 3 /\ Limit \in Nat /\ Limit >= 1
  BY LimitAssumption

LEMMA InvInit == Init => Inv
<1> SUFFICES ASSUME Init PROVE Inv
  OBVIOUS
<1>1. \/ asked = 0 /\ Early = {}
      \/ asked = 1 /\ Early = {Query(1)} /\ program = "dummy"
  <2>1. CASE zeroRtt
    <3>1. Early = {Query(1)} /\ program = "dummy"
      BY <2>1 DEF Init, Early
    <3>2. Cardinality({Query(1)}) = 1
      BY FS_Singleton
    <3> QED
      BY <3>1, <3>2 DEF Init
  <2>2. CASE ~zeroRtt
    BY <2>2, FS_EmptySet DEF Init, Early
  <2> QED
    BY <2>1, <2>2
<1>2. queued = {Hello} \cup Early /\ up = {} /\ down = {} /\ lost = {} /\ got = {}
  BY DEF Init, Opened
<1>3. TypeOK
  <2>1. zeroRtt \in BOOLEAN /\ ticket \in BOOLEAN /\ resumed \in BOOLEAN
    BY DEF Init, Configured
  <2>2. queued \subseteq ClientFrames /\ asked \in 0 .. MaxQueries /\ 0 \in 0 .. 2 * Limit
    BY <1>1, <1>2, FrameKinds, Bounds
  <2>3. /\ start = 0 /\ index \in 0 .. MaxQueries /\ now \in 0 .. 2 * Limit
        /\ early \subseteq 1 .. asked /\ got \subseteq 1 .. asked /\ accepts \in BOOLEAN
    <3>1. start = 0 /\ index = 0 /\ now = 0 /\ early = {} /\ got = {} /\ accepts = FALSE
      BY DEF Init
    <3>2. 0 \in 0 .. MaxQueries
      BY Bounds
    <3> QED
      BY <2>2, <3>1, <3>2
  <2>4. /\ program \in {"dummy", "tester", "migration"}
        /\ peer \in {"echo", "untrusted", "refuses", "versions"}
        /\ state = "loop" /\ round = 1 /\ phase = "hello" /\ closing = FALSE /\ flag = FALSE
        /\ result = "none" /\ server = "none"
    BY DEF Init
  <2> QED
    BY <1>2, <2>1, <2>2, <2>3, <2>4 DEF TypeOK
<1>4. Numbered
  BY <1>1, <1>2, FrameKinds, Bounds DEF Init, Numbered
<1>5. Closed
  BY <1>1, <1>2, FrameKinds, Bounds DEF Init, Closed, EndsItself
<1>6. Kept
  BY <1>1, <1>2, FrameKinds, Bounds DEF Init, Kept
<1>7. VerdictIsPhase
  BY DEF Init, VerdictIsPhase
<1>8. Paced
  BY <1>1, <1>2, Bounds DEF Init, Paced
<1>9. CloseIsSent
  BY DEF Init, CloseIsSent
<1> QED
  BY <1>3, <1>4, <1>5, <1>6, <1>7, <1>8, <1>9 DEF Inv

-----------------------------------------------------------------------------
(* The steps of the client *)

\* What the loop sends, of what is queued.
LEMMA SendableFrames ==
  ASSUME Inv
  PROVE  /\ Sendable \subseteq queued
         /\ closing => Sendable = queued \cap {Close}
         /\ ~closing /\ (phase = "complete" \/ resumed) => Sendable = queued
         /\ ~closing => \A f \in queued : f[1] # "query" => f \in Sendable
         /\ ~resumed /\ phase # "complete" => \A f \in Sendable : f[1] # "query"
  <1>1. CASE closing
    <2>1. Close[1] # "query"
      BY FrameKinds
    <2> QED
      BY <1>1, <2>1 DEF Sendable
  <1>2. CASE ~closing
    BY <1>2 DEF Sendable
  <1> QED
    BY <1>1, <1>2

\* What left in early data was asked for.
LEMMA EarlyAsked == ASSUME Inv, NEW m \in Nat, asked <= m PROVE SentEarly \subseteq 1 .. m
<1>1. asked \in Nat /\ early \subseteq 1 .. asked /\ 1 .. asked \subseteq 1 .. m
  BY Bounds DEF Inv, TypeOK
<1>2. \A i \in 1 .. MaxQueries : Query(i) \in Sendable => i <= asked
  BY SendableFrames DEF Inv, Numbered
<1>3. {i \in 1 .. MaxQueries : Query(i) \in Sendable} \subseteq 1 .. asked
  BY <1>1, <1>2, Bounds
<1> QED
  BY <1>1, <1>3 DEF SentEarly

\* A turn that sends and asks, and reads nothing it understands.
LEMMA SendStep ==
  ASSUME Inv, NEW f \in ServerFrames \cup {Nothing}, NEW new \in {0, 1},
         f \in down \cup {Nothing}, state = "loop", Continues,
         new = 1 => Due, index' = index + new, early' = SentEarly,
         up' = up \cup Sendable, down' = down \ {f},
         queued' = (queued \ Sendable) \cup {Query(i) : i \in asked + 1 .. asked + new},
         asked' = asked + new,
         lost' = lost \cup ({f} \ {Nothing}),
         UNCHANGED <<phase, closing, flag, got, result, ticket, program, peer, zeroRtt,
                     state, round, now, start, resumed, server, accepts>>
  PROVE  Inv'
<1>1. /\ TypeOK /\ Numbered /\ Closed /\ Kept /\ VerdictIsPhase /\ Paced /\ CloseIsSent
  BY DEF Inv
<1>2. /\ asked \in 0 .. MaxQueries /\ asked' \in 0 .. MaxQueries /\ asked' \in {asked, asked + 1}
      /\ asked' # asked => program = "migration" /\ now >= asked /\ new = 1
      /\ program = "migration" => index' = asked'
      /\ index' \in 0 .. MaxQueries
  <2>1. new = 1 => program = "migration" /\ asked < MaxQueries /\ now >= index
    BY <1>1, Bounds DEF TypeOK, Due, Elapsed
  <2>2. program = "migration" => index = asked
    BY <1>1 DEF Paced
  <2> QED
    BY <1>1, <2>1, <2>2, Bounds DEF TypeOK
<1>3. \A g : g \in queued' <=>
        \/ g \in queued /\ g \notin Sendable
        \/ asked' # asked /\ g = Query(asked')
  <2>1. \A i : i \in asked + 1 .. asked + new <=> asked' # asked /\ i = asked'
    BY <1>2
  <2>2. \A g : (\E i : i \in asked + 1 .. asked + new /\ g = Query(i))
                <=> (asked' # asked /\ g = Query(asked'))
    BY <2>1
  <2> QED
    BY <2>2
<1>4. TypeOK'
  <2>1. queued' \subseteq ClientFrames /\ up' \subseteq ClientFrames
    BY <1>1, <1>2, <1>3, FrameKinds, SendableFrames, Bounds DEF TypeOK
  <2>2. down' \subseteq ServerFrames /\ lost' \subseteq ClientFrames \cup ServerFrames
    BY <1>1 DEF TypeOK
  <2>3. got' \subseteq 1 .. asked' /\ early' \subseteq 1 .. asked'
    BY <1>1, <1>2, EarlyAsked DEF TypeOK
  <2> QED
    BY <1>1, <1>2, <2>1, <2>2, <2>3 DEF TypeOK
<1>5. \A i \in 1 .. MaxQueries :
        /\ Query(i) \in queued' => Query(i) \in queued \/ i = asked'
        /\ Query(i) \in up' \cup lost' => Query(i) \in queued \cup up \cup lost
        /\ Echo(i) \in down' \cup lost' => Echo(i) \in down \cup lost
  <2> SUFFICES ASSUME NEW i \in 1 .. MaxQueries
               PROVE  /\ Query(i) \in queued' => Query(i) \in queued \/ i = asked'
                      /\ Query(i) \in up' \cup lost' => Query(i) \in queued \cup up \cup lost
                      /\ Echo(i) \in down' \cup lost' => Echo(i) \in down \cup lost
    OBVIOUS
  <2>1. asked' # asked => Query(asked')[2] = asked'
    BY <1>2, FrameKinds
  <2>2. Query(i)[2] = i /\ Query(i) \notin ServerFrames \cup {Nothing} /\ Echo(i) # Nothing
    BY FrameKinds
  <2>3. Sendable \subseteq queued
    BY SendableFrames
  <2> QED
    BY <1>3, <2>1, <2>2, <2>3
<1>6. Numbered'
  BY <1>1, <1>2, <1>5 DEF Numbered, TypeOK
<1>7. Closed'
  <2>1. \A i \in Nat : Query(i) # Close
    BY FrameKinds
  <2>2. Close \in queued' \cup up' \cup lost' <=> Close \in queued \cup up \cup lost
    <3>1. Close # f /\ Sendable \subseteq queued
      BY FrameKinds, SendableFrames
    <3> QED
      BY <1>2, <1>3, <2>1, <3>1
  <2>3. Close \in up' \cup lost' => Close \in queued \cup up \cup lost
    BY <2>2
  <2>4. \A g \in {Refuse, Versions, Accept} : g \in down' \cup lost' => g \in down \cup lost
    BY FrameKinds
  <2> QED
    BY <1>1, <2>2, <2>4 DEF Closed, CloseSent, EndsItself
<1>8. Kept'
  <2> SUFFICES ASSUME peer = "echo", ~closing
               PROVE  Kept'
    BY DEF Kept
  <2>1. /\ Hello \in queued \cup up \cup lost => Hello \in queued' \cup up' \cup lost'
        /\ Accept \in down \cup lost => Accept \in down' \cup lost'
        /\ Finish \in down \cup lost => Finish \in down' \cup lost'
    BY <1>3, FrameKinds
  <2>2. ASSUME NEW i \in 1 .. asked'
        PROVE  \/ Query(i) \in queued' \cup up' \cup lost'
               \/ Echo(i) \in down' \cup lost'
               \/ i \in got'
    <3>1. CASE i = asked' /\ asked' # asked
      BY <1>3, <3>1
    <3>2. CASE i \in 1 .. asked
      <4>1. Echo(i) # Nothing
        BY <1>2, <3>2, FrameKinds
      <4> QED
        BY <1>1, <1>3, <3>2, <4>1 DEF Kept
    <3> QED
      BY <1>2, <3>1, <3>2
  <2> QED
    BY <1>1, <2>1, <2>2 DEF Kept
<1>9. VerdictIsPhase' /\ CloseIsSent'
  <2>1. VerdictIsPhase'
    BY <1>1 DEF VerdictIsPhase
  <2>2. program = "dummy" => ~flag
    BY DEF Continues
  <2> QED
    BY <1>1, <2>1, <2>2 DEF CloseIsSent, EndsItself
<1>10. Paced'
  <2> SUFFICES ASSUME program = "migration"
               PROVE  /\ asked' <= now + 1
                      /\ ~resumed /\ phase # "complete" => \A i \in 1 .. asked' : Query(i) \in queued'
                      /\ resumed => \A i \in 1 .. asked' : Query(i) \in queued' => i = asked'
    BY <1>1, <1>2 DEF Paced
  <2>1. asked' <= now + 1
    BY <1>1, <1>2 DEF Paced, TypeOK
  <2>2. ASSUME ~resumed, phase # "complete", NEW i \in 1 .. asked'
        PROVE  Query(i) \in queued'
    <3>1. CASE i = asked' /\ asked' # asked
      BY <1>3, <3>1
    <3>2. CASE i \in 1 .. asked
      <4>1. Query(i) \in queued /\ Query(i)[1] = "query"
        BY <1>1, <1>2, <2>2, <3>2, FrameKinds DEF Paced
      <4>2. Query(i) \notin Sendable
        BY <2>2, <4>1, SendableFrames
      <4> QED
        BY <1>3, <4>1, <4>2
    <3> QED
      BY <1>2, <3>1, <3>2
  <2>3. ASSUME resumed, NEW i \in 1 .. asked', Query(i) \in queued'
        PROVE  i = asked'
    <3>1. Sendable = queued
      BY <1>1, <2>3, SendableFrames DEF Paced
    <3>2. Query(i) = Query(asked') /\ i \in Nat /\ asked' \in Nat
      BY <1>2, <1>3, <2>3, <3>1
    <3> QED
      BY <3>2, FrameKinds
  <2> QED
    BY <2>1, <2>2, <2>3
<1> QED
  BY <1>4, <1>6, <1>7, <1>8, <1>9, <1>10 DEF Inv

\* A turn that reads a frame the client understands.
LEMMA ReceiveStep ==
  ASSUME Inv, NEW f \in ServerFrames \cup {Nothing}, NEW new \in {0, 1},
         f \in down \cup {Nothing}, state = "loop", Continues,
         new = 1 => Due, index' = index + new, early' = SentEarly,
         up' = up \cup Sendable, down' = down \ {f}, Readable(f), ~closing,
         Receive(f, (queued \ Sendable) \cup {Query(i) : i \in asked + 1 .. asked + new}, asked + new),
         UNCHANGED <<program, peer, zeroRtt, state, round, now, start, resumed, server, accepts>>
  PROVE  Inv'
<1>1. /\ TypeOK /\ Numbered /\ Closed /\ Kept /\ VerdictIsPhase /\ Paced /\ CloseIsSent
  BY DEF Inv
<1> DEFINE completed == Events(f) = {"completed"}
<1>2. /\ Events(f) = {"negotiated"} <=> f = Accept
      /\ completed <=> f = Finish /\ peer # "untrusted"
      /\ Events(f) = {"data"} <=> f[1] = "echo"
      /\ Events(f) = {"terminated"} <=> f = Versions
      /\ Events(f) # {} => f \in {Accept, Versions} \/ completed \/ f[1] = "echo"
  <2>1. /\ f = Accept \/ f = Finish \/ f = Versions => f[1] # "echo"
        /\ Accept # Finish /\ Accept # Versions /\ Finish # Versions
    BY FrameKinds
  <2>2. CASE f = Accept
    BY <2>1, <2>2 DEF Events
  <2>3. CASE f = Finish /\ peer # "untrusted"
    BY <2>1, <2>3 DEF Events
  <2>4. CASE f[1] = "echo"
    BY <2>1, <2>4 DEF Events
  <2>5. CASE f = Versions
    BY <2>1, <2>5 DEF Events
  <2>6. CASE f # Accept /\ ~(f = Finish /\ peer # "untrusted") /\ f[1] # "echo" /\ f # Versions
    BY <2>6 DEF Events
  <2> QED
    BY <2>2, <2>3, <2>4, <2>5, <2>6
<1>3. /\ phase = "hello" => f \in {Nothing, Accept, Refuse, Versions}
      /\ phase = "accepted" => f \in {Nothing, Finish, Refuse}
      /\ phase = "complete" => f \in {Nothing, Ticket, Refuse} \/ f[1] = "echo"
  BY KindOf, FrameKinds DEF Readable, Frames
<1>4. phase' = IF f = Accept THEN "accepted" ELSE IF completed THEN "complete" ELSE phase
  BY <1>2, FrameKinds DEF Receive
<1>5. /\ asked \in 0 .. MaxQueries /\ asked' \in 0 .. MaxQueries /\ asked' \in {asked, asked + 1}
      /\ program = "migration" => asked' = asked + new
      /\ asked' # asked /\ program = "migration" => now >= asked
      /\ program # "migration" => new = 0 /\ asked' = IF completed THEN asked + 1 ELSE asked
      /\ program = "migration" => index' = asked'
      /\ index' \in 0 .. MaxQueries
  <2>1. asked' = IF Asks(f) THEN asked + new + 1 ELSE asked + new
    BY DEF Receive
  <2>2. CASE program = "migration"
    BY <1>1, <2>1, <2>2, Bounds DEF Asks, Due, Elapsed, TypeOK, Paced
  <2>3. CASE program # "migration"
    <3>1. new = 0
      BY <2>3 DEF Due
    <3>2. completed => phase = "accepted"
      BY <1>1, <1>2, <1>3, FrameKinds DEF TypeOK
    <3>3. completed => asked <= 1
      BY <1>1, <2>3, <3>2 DEF Numbered
    <3> QED
      BY <1>1, <2>1, <2>3, <3>1, <3>3, Bounds DEF Asks, TypeOK
  <2> QED
    BY <2>2, <2>3
<1>6. PICK again \in SUBSET (lost \cap ClientFrames) :
        /\ lost' = lost \ again
        /\ f = Nothing => again = {}
        /\ queued' = IF Closes(f) THEN {Close}
                     ELSE ((queued \ Sendable) \cup {Query(i) : i \in asked + 1 .. asked + new}) \cup again
                            \cup (IF completed THEN {Done} ELSE {})
                            \cup {Query(i) : i \in asked + new + 1 .. asked'}
  BY DEF Receive
<1>7. ASSUME ~Closes(f)
      PROVE  \A g : g \in queued' <=>
               \/ g \in queued /\ g \notin Sendable
               \/ g \in again
               \/ completed /\ g = Done
               \/ asked' # asked /\ g = Query(asked')
  <2>1. \A i : i \in asked + 1 .. asked + new \/ i \in asked + new + 1 .. asked'
                <=> asked' # asked /\ i = asked'
    <3>1. CASE new = 0
      BY <1>5, <3>1
    <3>2. CASE new = 1
      BY <1>5, <3>2
    <3> QED
      BY <3>1, <3>2
  <2>2. \A g : (\E i : (i \in asked + 1 .. asked + new \/ i \in asked + new + 1 .. asked') /\ g = Query(i))
                <=> (asked' # asked /\ g = Query(asked'))
    BY <2>1
  <2> QED
    BY <1>6, <1>7, <2>2
<1>8. /\ Closes(f) => queued' = {Close}
      /\ closing' <=> Closes(f) \/ f \in {Refuse, Versions}
      /\ Closes(f) => program # "migration"
  <2>1. program = "migration" => peer # "untrusted"
    BY <1>1 DEF Numbered
  <2> QED
    BY <1>6, <2>1 DEF Closes, Receive
<1>9. /\ Sendable \subseteq queued /\ Close \notin queued \cup up \cup lost
      /\ Close \notin up' \cup lost'
  BY <1>1, <1>6, SendableFrames DEF Closed
<1>10. \A i \in 1 .. MaxQueries :
        /\ Query(i) \in queued' \cup up' \cup lost' => Query(i) \in queued \cup up \cup lost \/ i = asked'
        /\ Echo(i) \in down' \cup lost' => Echo(i) \in down \cup lost
        /\ f = Echo(i) => i <= asked
  <2> SUFFICES ASSUME NEW i \in 1 .. MaxQueries
               PROVE  /\ Query(i) \in queued' \cup up' \cup lost'
                            => Query(i) \in queued \cup up \cup lost \/ i = asked'
                      /\ Echo(i) \in down' \cup lost' => Echo(i) \in down \cup lost
                      /\ f = Echo(i) => i <= asked
    OBVIOUS
  <2>1. Query(asked')[2] = asked' /\ Query(i)[2] = i /\ Query(i)[1] = "query" /\ Echo(i) # Nothing
    BY <1>5, FrameKinds
  <2>2. Query(i) # Close /\ Query(i) # Done
    BY <2>1, FrameKinds
  <2>3. f = Echo(i) => i <= asked
    BY <1>1, <2>1 DEF Numbered
  <2>4. CASE Closes(f)
    BY <1>6, <1>8, <1>9, <2>2, <2>3, <2>4
  <2>5. CASE ~Closes(f)
    BY <1>6, <1>7, <1>9, <2>1, <2>2, <2>3, <2>5
  <2> QED
    BY <2>4, <2>5
<1>11. TypeOK'
  <2>1. queued' \subseteq ClientFrames /\ up' \subseteq ClientFrames
    <3>1. CASE Closes(f)
      BY <1>1, <1>8, <1>9, <3>1, FrameKinds DEF TypeOK
    <3>2. CASE ~Closes(f)
      <4>1. asked' # asked => Query(asked') \in ClientFrames
        BY <1>5, FrameKinds
      <4> QED
        BY <1>1, <1>6, <1>7, <1>9, <3>2, <4>1, FrameKinds DEF TypeOK
    <3> QED
      BY <3>1, <3>2
  <2>2. down' \subseteq ServerFrames /\ lost' \subseteq ClientFrames \cup ServerFrames
    BY <1>1, <1>6 DEF TypeOK
  <2>3. got' = got \cup {i \in 1 .. MaxQueries : f = Echo(i)}
    BY DEF Receive
  <2>4. got' \subseteq 1 .. asked' /\ early' \subseteq 1 .. asked'
    BY <1>1, <1>5, <1>10, <2>3, EarlyAsked DEF TypeOK
  <2>5. closing' \in BOOLEAN /\ flag' \in BOOLEAN /\ ticket' \in BOOLEAN
    BY DEF Receive
  <2>6. result' \in {"none", "-1", "1", "2"} /\ phase' \in {"hello", "accepted", "complete"}
    BY <1>1, <1>4 DEF Receive, Verdict, TypeOK
  <2> QED
    BY <1>1, <1>5, <2>1, <2>2, <2>4, <2>5, <2>6 DEF TypeOK
<1>12. Numbered'
  <2>1. \A i \in 1 .. MaxQueries :
          Query(i) \in queued' \cup up' \cup lost' \/ Echo(i) \in down' \cup lost' => i <= asked'
    BY <1>1, <1>5, <1>10 DEF Numbered
  <2>2. program # "migration" => asked' <= (IF phase' = "complete" THEN 2 ELSE 1)
    <3>1. f = Accept => phase = "hello" /\ ~completed
      BY <1>1, <1>2, <1>3, FrameKinds DEF TypeOK
    <3>2. completed => phase = "accepted"
      BY <1>1, <1>2, <1>3, FrameKinds DEF TypeOK
    <3> QED
      BY <1>1, <1>4, <1>5, <3>1, <3>2 DEF Numbered, TypeOK
  <2> QED
    BY <1>1, <2>1, <2>2 DEF Numbered
<1>13. Closed'
  <2>1. Close \in queued' => Closes(f)
    <3>1. Query(asked') # Close /\ Done # Close
      BY <1>5, FrameKinds
    <3> QED
      BY <1>6, <1>7, <1>9, <3>1
  <2>2. f \in {Refuse, Versions} => EndsItself
    BY <1>1, FrameKinds DEF Closed, EndsItself
  <2>3. server = "gone" => EndsItself
    BY <1>1 DEF Closed
  <2>4. \A g \in {Refuse, Versions, Accept} : g \in down' \cup lost' => g \in down \cup lost
    BY <1>6
  <2>5. f \in down \/ f = Nothing
    OBVIOUS
  <2>6. EndsItself => phase = "hello" /\ phase' = "hello"
    <3>1. EndsItself => phase = "hello" /\ f # Accept
      BY <1>1, <2>5, FrameKinds DEF Closed
    <3> QED
      BY <1>2, <1>3, <1>4, <3>1, FrameKinds
  <2>7. Closes(f) => Close \in queued'
    BY <1>8
  <2> QED
    BY <1>1, <1>8, <1>9, <2>1, <2>2, <2>3, <2>4, <2>6, <2>7 DEF Closed, EndsItself
<1>14. Kept'
  <2> SUFFICES ASSUME peer = "echo", ~Closes(f), f \notin {Refuse, Versions}
               PROVE  Kept'
    BY <1>8 DEF Kept
  <2>1. \A g \in ClientFrames :
          g \in queued \cup up \cup lost => g \in queued' \cup up' \cup lost'
    BY <1>6, <1>7
  <2>2. \A g \in ServerFrames : g \in down \cup lost /\ g # f => g \in down' \cup lost'
    BY <1>6, FrameKinds
  <2>3. server = "none" => Hello \in queued' \cup up' \cup lost'
    BY <1>1, <2>1, FrameKinds DEF Kept
  <2>4. ASSUME server # "none"
        PROVE  /\ phase' = "hello" => Accept \in down' \cup lost'
               /\ phase' # "complete" => Finish \in down' \cup lost'
    BY <1>1, <1>2, <1>3, <1>4, <2>2, <2>4, FrameKinds DEF Kept, TypeOK
  <2>5. ASSUME NEW i \in 1 .. asked'
        PROVE  \/ Query(i) \in queued' \cup up' \cup lost'
               \/ Echo(i) \in down' \cup lost'
               \/ i \in got'
    <3>1. i \in 1 .. MaxQueries
      BY <1>5, Bounds
    <3>2. got' = got \cup {j \in 1 .. MaxQueries : f = Echo(j)}
      BY DEF Receive
    <3>3. CASE i = asked' /\ asked' # asked
      BY <1>7, <3>3
    <3>4. CASE i \in 1 .. asked
      BY <1>1, <2>1, <2>2, <3>1, <3>2, <3>4, FrameKinds DEF Kept
    <3> QED
      BY <1>5, <3>3, <3>4
  <2> QED
    BY <2>3, <2>4, <2>5 DEF Kept
<1>15. VerdictIsPhase'
  <2> SUFFICES ASSUME program = "tester"
               PROVE  /\ result' = "2" <=> phase' = "complete"
                      /\ result' = "1" <=> phase' = "accepted" \/ (peer = "versions" /\ closing')
                      /\ result' = "-1" => phase' = "hello"
    BY DEF VerdictIsPhase
  <2>1. /\ result = "2" <=> phase = "complete"
        /\ result = "1" <=> phase = "accepted"
        /\ result = "-1" => phase = "hello"
    BY <1>1 DEF VerdictIsPhase
  <2>9. /\ peer = "versions" => phase = "hello"
        /\ f = Versions => peer = "versions"
        /\ f = Refuse => peer = "refuses"
        /\ f = Accept => peer # "versions"
        /\ f \in {Accept, Nothing, Ticket} => ~closing'
    BY <1>1, <1>2, <1>8, FrameKinds DEF Closed, EndsItself, Closes
  <2>2. result' = IF Events(f) = {} THEN result
                  ELSE IF completed \/ result = "2" THEN "2" ELSE "1"
    BY DEF Receive, Verdict
  <2>3. CASE f = Accept
    <3>1. phase = "hello" /\ Events(f) # {} /\ ~completed
      BY <1>1, <1>2, <1>3, <2>3, FrameKinds DEF TypeOK
    <3> QED
      BY <1>4, <2>1, <2>2, <2>3, <2>9, <3>1
  <2>4. CASE completed
    <3>1. phase = "accepted" /\ f # Accept
      BY <1>1, <1>2, <1>3, <2>4, FrameKinds DEF TypeOK
    <3> QED
      BY <1>2, <1>4, <2>2, <2>4, <2>9, <3>1, FrameKinds
  <2>7. CASE f = Versions
    <3>1. phase = "hello" /\ phase' = "hello" /\ closing' /\ ~completed
      BY <1>2, <1>4, <1>8, <2>7, <2>9, FrameKinds
    <3> QED
      BY <1>2, <2>1, <2>2, <2>7, <2>9, <3>1
  <2>5. CASE f[1] = "echo"
    <3>1. phase = "complete" /\ ~completed /\ f # Accept
      BY <1>1, <1>2, <1>3, <2>5, FrameKinds DEF TypeOK
    <3> QED
      BY <1>4, <2>1, <2>2, <2>9, <3>1
  <2>6. CASE Events(f) = {}
    <3>1. f \notin {Accept, Versions} /\ ~completed /\ phase' = phase
      BY <1>2, <1>4, <2>6
    <3>2. ~(peer = "versions" /\ closing')
      BY <1>2, <1>3, <1>8, <2>6, <2>9, <3>1, FrameKinds DEF Closes
    <3> QED
      BY <2>1, <2>2, <2>6, <3>1, <3>2
  <2> QED
    BY <1>2, <2>3, <2>4, <2>5, <2>6, <2>7
<1>16. Paced'
  <2>0. program = "migration" => ~Closes(f) /\ f \notin {Refuse, Versions}
    BY <1>1, <1>8, FrameKinds DEF Numbered, Closed
  <2> SUFFICES ASSUME program = "migration"
               PROVE  /\ asked' <= now + 1
                      /\ ~resumed /\ phase' # "complete" => \A i \in 1 .. asked' : Query(i) \in queued'
                      /\ resumed /\ phase' = "hello" =>
                           \A i \in 1 .. asked' : Query(i) \in queued' => i = asked'
    BY <1>5, <1>8, <2>0 DEF Paced
  <2>1. asked' <= now + 1
    BY <1>1, <1>5 DEF Paced, TypeOK
  <2>2. ASSUME ~resumed, phase' # "complete", NEW i \in 1 .. asked'
        PROVE  Query(i) \in queued'
    <3>1. ~Closes(f) /\ phase # "complete"
      BY <1>3, <1>4, <1>8, <2>2, FrameKinds
    <3>2. CASE i = asked' /\ asked' # asked
      BY <1>7, <3>1, <3>2
    <3>3. CASE i \in 1 .. asked
      <4>1. Query(i) \in queued /\ Query(i)[1] = "query"
        BY <1>1, <1>5, <2>2, <3>1, <3>3, FrameKinds DEF Paced
      <4>2. Query(i) \notin Sendable
        BY <2>2, <3>1, <4>1, SendableFrames
      <4> QED
        BY <1>6, <3>1, <4>1, <4>2
    <3> QED
      BY <1>5, <3>2, <3>3
  <2>3. ASSUME resumed, phase' = "hello", NEW i \in 1 .. asked', Query(i) \in queued'
        PROVE  i = asked'
    <3>1. f = Nothing /\ ~completed
      BY <1>2, <1>3, <1>4, <2>0, <2>3, FrameKinds
    <3>2. Sendable = queued /\ again = {}
      BY <1>6, <2>3, <3>1, SendableFrames
    <3>3. Query(i) = Query(asked') /\ i \in Nat /\ asked' \in Nat
      BY <1>5, <1>7, <2>0, <2>3, <3>1, <3>2
    <3> QED
      BY <3>3, FrameKinds
  <2> QED
    BY <2>1, <2>2, <2>3
<1>17. CloseIsSent'
  BY <1>1, <1>9 DEF CloseIsSent, CloseSent, Closed, EndsItself
<1> QED
  BY <1>11, <1>12, <1>13, <1>14, <1>15, <1>16, <1>17 DEF Inv

\* A turn of a client's loop is one or the other.
LEMMA TurnStep ==
  ASSUME Inv, NEW f \in ServerFrames \cup {Nothing}, Turn(f)
  PROVE  Inv'
<1> DEFINE new == IF Due THEN 1 ELSE 0
           left == (queued \ Sendable) \cup {Query(i) : i \in asked + 1 .. asked + new}
           queries == IF Due THEN {Query(asked + 1)} ELSE {}
<1>1. queries = {Query(i) : i \in asked + 1 .. asked + new} /\ Cardinality(queries) = new
  <2>0. asked \in Nat
    BY DEF Inv, TypeOK
  <2>1. CASE Due
    <3>1. asked + 1 .. asked + new = {asked + 1}
      BY <2>0, <2>1
    <3>2. {Query(i) : i \in {asked + 1}} = {Query(asked + 1)}
      OBVIOUS
    <3>3. Cardinality({Query(asked + 1)}) = 1
      BY FS_Singleton
    <3> QED
      BY <2>1, <3>1, <3>2, <3>3
  <2>2. CASE ~Due
    <3>1. asked + 1 .. asked + new = {}
      BY <2>0, <2>2
    <3> QED
      BY <2>2, <3>1, FS_EmptySet
  <2> QED
    BY <2>1, <2>2
<1>2. /\ state = "loop" /\ Continues /\ f \in down \cup {Nothing}
      /\ up' = up \cup Sendable /\ down' = down \ {f}
      /\ index' = index + Cardinality(queries) /\ early' = SentEarly
      /\ UNCHANGED <<program, peer, zeroRtt, state, round, now, start, resumed, server, accepts>>
      /\ IF Readable(f) /\ ~closing
         THEN Receive(f, (queued \ Sendable) \cup queries, asked + Cardinality(queries))
         ELSE /\ queued' = (queued \ Sendable) \cup queries
              /\ asked' = asked + Cardinality(queries)
              /\ lost' = lost \cup ({f} \ {Nothing})
              /\ UNCHANGED <<phase, closing, flag, got, result, ticket>>
  BY DEF Turn
<1>3. new \in {0, 1} /\ (new = 1 => Due) /\ index' = index + new
  BY <1>1, <1>2
<1>4. CASE Readable(f) /\ ~closing
  <2>1. Receive(f, left, asked + new)
    BY <1>1, <1>2, <1>4
  <2> HIDE DEF new
  <2> QED
    BY <1>2, <1>3, <1>4, <2>1, ReceiveStep
<1>5. CASE ~(Readable(f) /\ ~closing)
  <2>1. /\ queued' = left /\ asked' = asked + new
        /\ lost' = lost \cup ({f} \ {Nothing})
        /\ UNCHANGED <<phase, closing, flag, got, result, ticket>>
    BY <1>1, <1>2, <1>5
  <2> HIDE DEF new
  <2> QED
    BY <1>2, <1>3, <2>1, SendStep
<1> QED
  BY <1>4, <1>5

LEMMA MoreTime ==
  ASSUME NEW k \in Nat, NEW m \in Nat, NEW n \in Nat, n >= m, k <= m + 1
  PROVE  k <= n + 1
  OBVIOUS

\* The ends of the loops that send nothing, and time.
LEMMA OtherStep ==
  ASSUME Inv, UNCHANGED <<program, peer, zeroRtt, round, start, index, flag, result, ticket, connection>>,
         now' \in 0 .. 2 * Limit, now' >= now, state' \in {"loop", "over"},
         program = "tester" /\ state' = "over" => state = "over" \/ Close \notin queued
  PROVE  Inv'
<1>1. /\ TypeOK /\ Numbered /\ Closed /\ Kept /\ VerdictIsPhase /\ Paced /\ CloseIsSent
      /\ UNCHANGED <<phase, closing, asked, early, got, resumed, server, accepts, queued, up, down,
                     lost>>
  BY DEF Inv, connection, network
<1>2. TypeOK'
  BY <1>1 DEF TypeOK
<1>3. Numbered' /\ Closed' /\ Kept' /\ VerdictIsPhase'
  BY <1>1 DEF Numbered, Closed, CloseSent, EndsItself, Kept, VerdictIsPhase
<1>4. Paced'
  <2>1. asked \in Nat /\ now \in Nat /\ now' \in Nat
    BY <1>1, Bounds DEF TypeOK
  <2>2. asked <= now + 1 => asked <= now' + 1
    BY <2>1, MoreTime, Zenon
  <2>3. UNCHANGED <<program, index, asked, closing, resumed, phase, queued>>
    BY <1>1
  <2> SUFFICES ASSUME program = "migration"
               PROVE  Paced'
    BY <2>3 DEF Paced
  <2>4. /\ index = asked /\ ~closing /\ asked <= now + 1
        /\ ~resumed /\ phase # "complete" => \A i \in 1 .. asked : Query(i) \in queued
        /\ resumed /\ phase = "hello" => \A i \in 1 .. asked : Query(i) \in queued => i = asked
    BY <1>1 DEF Paced
  <2>5. index' = asked' /\ ~closing' /\ asked' <= now' + 1
    BY <2>1, <2>2, <2>3, <2>4
  <2>6. /\ ~resumed' /\ phase' # "complete" => \A i \in 1 .. asked' : Query(i) \in queued'
        /\ resumed' /\ phase' = "hello" => \A i \in 1 .. asked' : Query(i) \in queued' => i = asked'
    BY <2>3, <2>4
  <2> QED
    BY <2>5, <2>6 DEF Paced
<1>5. CloseIsSent'
  BY <1>1 DEF CloseIsSent, CloseSent, Closed, EndsItself
<1> QED
  BY <1>2, <1>3, <1>4, <1>5 DEF Inv

LEMMA TesterEndsStep ==
  ASSUME Inv, TesterEnds
  PROVE  Inv'
<1>1. /\ TypeOK /\ Numbered /\ Closed /\ Kept /\ VerdictIsPhase /\ Paced /\ CloseIsSent
  BY DEF Inv
<1>2. /\ program = "tester" /\ state' = "over"
      /\ up' = up \cup Sendable /\ queued' = queued \ Sendable
      /\ result' = IF result = "none" THEN "-1" ELSE result
      /\ early' = SentEarly
      /\ UNCHANGED <<program, peer, zeroRtt, round, now, start, index, flag, ticket, phase, closing,
                     asked, got, resumed, server, accepts, down, lost>>
  BY DEF TesterEnds, clock
<1>3. Sendable \subseteq queued /\ (closing /\ Close \in queued => Close \in Sendable)
  BY SendableFrames
<1>4. \A g : g \in queued' \cup up' <=> g \in queued \cup up
  BY <1>2, <1>3
<1>5. TypeOK'
  <2>1. early' \subseteq 1 .. asked
    BY <1>1, <1>2, EarlyAsked, Bounds DEF TypeOK
  <2> QED
    BY <1>1, <1>2, <1>3, <2>1 DEF TypeOK
<1>6. Numbered' /\ Kept'
  BY <1>1, <1>2, <1>4 DEF Numbered, Kept
<1>7. Closed'
  BY <1>1, <1>2, <1>3 DEF Closed, CloseSent, EndsItself
<1>8. VerdictIsPhase'
  BY <1>1, <1>2 DEF VerdictIsPhase, TypeOK
<1>9. Paced' /\ CloseIsSent'
  BY <1>1, <1>2, <1>3 DEF Paced, CloseIsSent, CloseSent, Closed, EndsItself
<1> QED
  BY <1>5, <1>6, <1>7, <1>8, <1>9 DEF Inv

LEMMA NextRoundStep ==
  ASSUME Inv, NextRound
  PROVE  Inv'
<1>1. /\ TypeOK /\ Numbered
  BY DEF Inv
<1>2. resumed' \in BOOLEAN
  BY DEF NextRound, Configured
<1>3. TypeOK'
  <2>1. /\ round' = 2 /\ phase' = "hello" /\ ~closing' /\ asked' = 0 /\ got' = {} /\ server' = "none"
        /\ queued' = {Hello} /\ up' = {} /\ down' = {} /\ lost' = {} /\ closing' \in BOOLEAN
        /\ index' = 0 /\ early' = {} /\ accepts' \in BOOLEAN
        /\ UNCHANGED <<program, peer, zeroRtt, state, now, start, flag, result, ticket>>
    BY DEF NextRound, Opened
  <2>2. queued' \subseteq ClientFrames /\ asked' \in 0 .. MaxQueries /\ got' \subseteq 1 .. asked'
    BY <2>1, FrameKinds, Bounds
  <2> QED
    BY <1>1, <1>2, <2>1, <2>2 DEF TypeOK
<1>4. Numbered' /\ Closed' /\ Kept'
  BY <1>1, FrameKinds, Bounds DEF NextRound, Opened, Numbered, Closed, EndsItself, Kept
<1>5. VerdictIsPhase' /\ Paced' /\ CloseIsSent'
  BY <1>1 DEF NextRound, VerdictIsPhase, Paced, CloseIsSent, TypeOK
<1> QED
  BY <1>3, <1>4, <1>5 DEF Inv

-----------------------------------------------------------------------------
(* The steps of the server and the network *)

LEMMA ServeStep ==
  ASSUME Inv, NEW f \in ClientFrames, Serve(f)
  PROVE  Inv'
<1>1. /\ TypeOK /\ Numbered /\ Closed /\ Kept /\ VerdictIsPhase /\ Paced /\ CloseIsSent
  BY DEF Inv
<1>2. /\ f \in up /\ up' = up \ {f}
      /\ UNCHANGED <<program, peer, zeroRtt, state, round, now, start, index, flag, result, ticket,
                     phase, closing, queued, asked, early, got, resumed>>
  BY DEF Serve, clock
<1>3. CASE lost' = lost \cup {f} /\ UNCHANGED <<server, accepts, down>>
  <2>1. \A g : g \in queued' \cup up' \cup lost' <=> g \in queued \cup up \cup lost
    BY <1>2, <1>3
  <2>2. \A g \in ServerFrames : g \in down' \cup lost' <=> g \in down \cup lost
    BY <1>3, FrameKinds
  <2>3. TypeOK'
    BY <1>1, <1>2, <1>3 DEF TypeOK
  <2>4. Numbered'
    BY <1>1, <1>2, <2>1, <2>2, FrameKinds DEF Numbered
  <2>5. CloseSent' <=> CloseSent
    BY <1>2, <1>3 DEF CloseSent, EndsItself
  <2>6. Closed'
    BY <1>1, <1>2, <1>3, <2>1, <2>2, <2>5, FrameKinds DEF Closed, EndsItself
  <2>7. Kept'
    <3>1. asked \in 0 .. MaxQueries
      BY <1>1 DEF TypeOK
    <3> QED
      BY <1>1, <1>2, <1>3, <2>1, <2>2, <3>1, FrameKinds, Bounds DEF Kept
  <2>8. VerdictIsPhase' /\ Paced' /\ CloseIsSent'
    BY <1>1, <1>2, <2>5 DEF VerdictIsPhase, Paced, CloseIsSent, EndsItself
  <2> QED
    BY <2>3, <2>4, <2>6, <2>7, <2>8 DEF Inv
<1>4. CASE /\ Connects(f)
           /\ \E again \in SUBSET (lost \cap ServerFrames) :
                /\ down' = down \cup (IF server' = "gone" THEN {} ELSE again) \cup Reply(f)
                /\ lost' = lost \ again
  <2>1. PICK again \in SUBSET (lost \cap ServerFrames) :
          /\ down' = down \cup (IF server' = "gone" THEN {} ELSE again) \cup Reply(f)
          /\ lost' = lost \ again
    BY <1>4
  <2>2. f \in Frames /\ f[1] \in {"hello", "done", "close", "query"}
    BY KindOf DEF Frames
  <2>3. /\ f = Hello => Reply(f) = Answer
        /\ f = Done => Reply(f) = {Ticket}
        /\ f = Close => Reply(f) = {}
        /\ \A i \in 1 .. MaxQueries : f = Query(i) => Reply(f) = {Echo(i)}
    BY FrameKinds DEF Reply
  <2>4. /\ EndsItself => Answer \in {{Refuse}, {Versions}}
        /\ ~EndsItself => Answer = {Accept, Finish}
        /\ Refuse \in Answer => peer = "refuses"
        /\ Versions \in Answer => peer = "versions"
        /\ Accept \in Answer => ~EndsItself
    BY FrameKinds DEF Answer, EndsItself
  <2>5. Reply(f) \subseteq ServerFrames
    BY <2>2, <2>3, <2>4, KindOf, FrameKinds
  <2>6. /\ server' = "gone" /\ ~EndsItself => f = Close
        /\ server' \in {"none", "shaking", "up", "gone"} /\ accepts' \in BOOLEAN
        /\ ~EndsItself => server' # "none"
        /\ server = "none" => f = Hello
        /\ server # "gone"
        /\ f = Close => server' = "gone"
    <3>1. Takes(f) => server \in {"shaking", "up"} /\ f[1] = "query"
      BY DEF Takes
    <3>2. f = Close => f # Hello /\ f # Done /\ f[1] # "query"
      BY FrameKinds
    <3> QED
      BY <1>1, <1>4, <3>1, <3>2 DEF TypeOK, Connects, EndsItself
  <2>7. /\ \A g \in ClientFrames : g # f => (g \in queued' \cup up' \cup lost' <=> g \in queued \cup up \cup lost)
        /\ f \in queued' \cup up' \cup lost' => f \in queued \cup up \cup lost
    BY <1>2, <2>1, FrameKinds
  <2>8. TypeOK'
    BY <1>1, <1>2, <2>1, <2>5, <2>6 DEF TypeOK
  <2>9. \A i \in 1 .. MaxQueries : Echo(i) \in Reply(f) => f = Query(i)
    <3> SUFFICES ASSUME NEW i \in 1 .. MaxQueries, Echo(i) \in Reply(f) PROVE f = Query(i)
      OBVIOUS
    <3>1. Echo(i)[1] = "echo" /\ Echo(i)[2] = i
      BY FrameKinds
    <3>2. f # Hello /\ f # Done /\ f # Close
      <4>1. \A g \in {Refuse, Versions, Accept, Finish, Ticket} : Echo(i) # g
        BY <3>1, FrameKinds
      <4> QED
        BY <2>3, <2>4, <4>1
    <3>3. PICK j \in 1 .. MaxQueries : f = Query(j)
      BY <2>2, <3>2, KindOf
    <3>4. Echo(i) = Echo(j) /\ Echo(j)[2] = j
      BY <2>3, <3>3, FrameKinds
    <3> QED
      BY <3>1, <3>3, <3>4
  <2>10. Numbered'
    BY <1>1, <1>2, <2>1, <2>7, <2>9, FrameKinds DEF Numbered
  <2>11. Closed'
    <3>1. Close \in queued' \cup up' \cup lost' => closing
      BY <1>1, <2>7, FrameKinds DEF Closed
    <3>2. f = Close => closing
      BY <1>1, <1>2 DEF Closed
    <3>3. ASSUME closing, ~EndsItself PROVE Close \in queued' \/ CloseSent'
      <4>1. CASE f = Close
        BY <1>2, <2>6, <3>3, <4>1 DEF CloseSent, EndsItself
      <4>2. CASE f # Close
        BY <1>1, <1>2, <2>1, <2>6, <3>3, <4>2, FrameKinds DEF Closed, CloseSent, EndsItself
      <4> QED
        BY <4>1, <4>2
    <3>4. ASSUME NEW g \in {Refuse, Versions, Accept}, g \in Reply(f) PROVE g \in Answer
      <4>1. g # Ticket /\ \A i \in 1 .. MaxQueries : g # Echo(i)
        BY FrameKinds
      <4>2. f = Hello
        BY <2>2, <2>3, <3>4, <4>1, KindOf
      <4> QED
        BY <2>3, <3>4, <4>2
    <3>5. \A g \in {Refuse, Versions, Accept} : g \in down' \cup lost' => g \in down \cup lost \cup Answer
      BY <2>1, <3>4
    <3>6. /\ Refuse \in down' \cup lost' => peer = "refuses"
          /\ Versions \in down' \cup lost' => peer = "versions"
          /\ Accept \in down' \cup lost' => ~EndsItself
      BY <1>1, <2>4, <3>5 DEF Closed
    <3>7. /\ EndsItself => phase = "hello"
          /\ server' = "gone" /\ ~EndsItself => closing
      BY <1>1, <2>6, <3>2 DEF Closed
    <3>8. (EndsItself' <=> EndsItself) /\ UNCHANGED <<peer, phase, closing>>
      BY <1>2 DEF EndsItself
    <3> QED
      BY <3>1, <3>3, <3>6, <3>7, <3>8 DEF Closed
  <2>12. Kept'
    <3> SUFFICES ASSUME peer = "echo", ~closing PROVE Kept'
      BY <1>2 DEF Kept
    <3>1. f # Close
      BY <1>1, <1>2 DEF Closed
    <3>2. server' \notin {"none", "gone"} /\ ~EndsItself
      BY <2>6, <3>1 DEF EndsItself
    <3>3. \A g \in ServerFrames : g \in down \cup lost => g \in down' \cup lost'
      BY <2>1, <3>2
    <3>4. phase = "hello" => Accept \in down' \cup lost'
      BY <1>1, <2>1, <2>3, <2>4, <2>6, <3>2, <3>3, FrameKinds DEF Kept
    <3>5. phase # "complete" => Finish \in down' \cup lost'
      <4>1. CASE server = "none"
        BY <2>1, <2>3, <2>4, <2>6, <3>2, <4>1
      <4>2. CASE server # "none"
        BY <1>1, <3>3, <4>2, FrameKinds DEF Kept
      <4> QED
        BY <4>1, <4>2
    <3>6. ASSUME NEW i \in 1 .. asked
          PROVE  \/ Query(i) \in queued' \cup up' \cup lost'
                 \/ Echo(i) \in down' \cup lost'
                 \/ i \in got
      <4>1. i \in 1 .. MaxQueries
        BY <1>1, Bounds DEF TypeOK
      <4>2. CASE f = Query(i)
        BY <2>1, <2>3, <4>1, <4>2
      <4>3. CASE f # Query(i)
        BY <1>1, <2>7, <3>3, <4>1, <4>3, FrameKinds DEF Kept
      <4> QED
        BY <4>2, <4>3
    <3> QED
      BY <1>2, <3>2, <3>4, <3>5, <3>6 DEF Kept
  <2>13. VerdictIsPhase' /\ Paced'
    BY <1>1, <1>2 DEF VerdictIsPhase, Paced
  <2>14. CloseIsSent'
    <3>1. CASE f = Close
      <4>1. CloseSent /\ (~EndsItself => CloseSent')
        BY <1>2, <2>6, <3>1 DEF CloseSent, EndsItself
      <4> QED
        BY <1>1, <1>2, <4>1 DEF CloseIsSent, EndsItself
    <3>2. CASE f # Close
      <4>1. CloseSent' <=> CloseSent
        BY <1>1, <1>2, <2>1, <2>6, <3>2, FrameKinds DEF CloseSent, EndsItself
      <4> QED
        BY <1>1, <1>2, <4>1 DEF CloseIsSent, EndsItself
    <3> QED
      BY <3>1, <3>2
  <2> QED
    BY <2>8, <2>10, <2>11, <2>12, <2>13, <2>14 DEF Inv
<1> QED
  BY <1>3, <1>4 DEF Serve

LEMMA LoseStep ==
  ASSUME Inv, NEW f \in ClientFrames \cup ServerFrames, Lose(f)
  PROVE  Inv'
<1>1. /\ TypeOK /\ Numbered /\ Closed /\ Kept /\ VerdictIsPhase /\ Paced /\ CloseIsSent
  BY DEF Inv
<1>2. /\ f \in up \cup down /\ up' = up \ {f} /\ down' = down \ {f} /\ lost' = lost \cup {f}
      /\ UNCHANGED <<program, peer, zeroRtt, state, round, now, start, index, flag, result, ticket,
                     phase, closing, queued, asked, early, got, resumed, server, accepts>>
  BY DEF Lose, clock
<1>3. up \subseteq ClientFrames /\ down \subseteq ServerFrames
  BY <1>1 DEF TypeOK
<1>4. /\ \A g \in ClientFrames : g \in queued' \cup up' \cup lost' <=> g \in queued \cup up \cup lost
      /\ \A g \in ClientFrames : g \in up' \cup lost' <=> g \in up \cup lost
      /\ \A g \in ServerFrames : g \in down' \cup lost' <=> g \in down \cup lost
  BY <1>2, <1>3, FrameKinds
<1>5. TypeOK'
  BY <1>1, <1>2 DEF TypeOK
<1>6. Numbered'
  BY <1>1, <1>2, <1>4, FrameKinds DEF Numbered
<1>7. CloseSent' <=> CloseSent
  BY <1>2, <1>4, FrameKinds DEF CloseSent, EndsItself
<1>8. Closed'
  BY <1>1, <1>2, <1>4, <1>7, FrameKinds DEF Closed, EndsItself
<1>9. Kept'
  <2>1. asked \in 0 .. MaxQueries
    BY <1>1 DEF TypeOK
  <2> QED
    BY <1>1, <1>2, <1>4, <2>1, FrameKinds, Bounds DEF Kept
<1>10. VerdictIsPhase' /\ Paced' /\ CloseIsSent'
  BY <1>1, <1>2, <1>7 DEF VerdictIsPhase, Paced, CloseIsSent, EndsItself
<1> QED
  BY <1>5, <1>6, <1>8, <1>9, <1>10 DEF Inv

-----------------------------------------------------------------------------
(* The theorems *)

LEMMA InvStep == Inv /\ [Next]_vars => Inv'
<1> SUFFICES ASSUME Inv, [Next]_vars PROVE Inv'
  OBVIOUS
<1>1. now \in 0 .. 2 * Limit /\ now \in Nat /\ state \in {"loop", "over"}
  BY Bounds DEF Inv, TypeOK
<1>2. CASE DummyEnds
  BY <1>1, <1>2, OtherStep DEF DummyEnds, clock
<1>3. CASE TesterSkips
  <2>1. Close \notin queued
    BY <1>3, FrameKinds DEF TesterSkips, Opened
  <2> QED
    BY <1>1, <1>3, <2>1, OtherStep DEF TesterSkips, clock
<1>4. CASE MigrationEnds
  BY <1>1, <1>4, OtherStep DEF MigrationEnds, clock
<1>5. CASE Tick
  <2>1. now' = now + 1 /\ now < Deadline
    BY <1>1, <1>5 DEF Tick, Elapsed, Inv, TypeOK
  <2>2. Deadline <= 2 * Limit /\ Deadline \in Nat
    <3>1. CASE round = 1
      BY <3>1, Bounds DEF Deadline
    <3>2. CASE round = 2
      BY <3>2, Bounds DEF Deadline
    <3> QED
      BY <3>1, <3>2 DEF Inv, TypeOK
  <2>3. now' \in 0 .. 2 * Limit /\ now' >= now
    BY <1>1, <2>1, <2>2, Bounds
  <2> QED
    BY <1>1, <1>5, <2>3, OtherStep DEF Tick
<1>6. CASE UNCHANGED vars
  BY <1>1, <1>6, OtherStep DEF vars, clock
<1> QED
  BY <1>2, <1>3, <1>4, <1>5, <1>6, TurnStep, TesterEndsStep, NextRoundStep, ServeStep, LoseStep
  DEF Next, Client

LEMMA Invariance == Spec => []Inv
  BY InvInit, InvStep, PTL DEF Spec

\* The loops keep their type, for any deadline and any number of queries.
THEOREM TypeCorrect == Spec => []TypeOK
<1>1. Inv => TypeOK
  BY DEF Inv
<1> QED
  BY <1>1, Invariance, PTL

\* The exchange of a client with the echo server stands still only after a loss
\* that nobody noticed: neither loop, of the client and of the server, forgets a
\* frame.
THEOREM NothingForgotten == Spec => []QuietOnlyAfterLoss
<1>1. Inv => QuietOnlyAfterLoss
  <2> SUFFICES ASSUME Inv, Quiet, state = "loop", peer = "echo", ~closing, lost = {}
               PROVE  phase = "complete" /\ got = 1 .. asked
    BY DEF QuietOnlyAfterLoss
  <2>1. /\ up = {} /\ down = {} /\ Sendable = {} /\ Kept /\ TypeOK
    BY DEF Quiet, Inv
  <2>2. Hello \notin queued
    BY <2>1, SendableFrames, FrameKinds
  <2>3. phase = "complete"
    BY <2>1, <2>2 DEF Kept
  <2>4. queued = {}
    BY <2>1, <2>3, SendableFrames
  <2>5. got = 1 .. asked
    BY <2>1, <2>4 DEF Kept, TypeOK
  <2> QED
    BY <2>3, <2>5
<1> QED
  BY <1>1, Invariance, PTL

\* The tester tells the server that it leaves, the dummy client never does
\* (dummy_client.py:176, quic_support_tester.py:69-71).
THEOREM CloseSentOrNot == Spec => []CloseIsSent
<1>1. Inv => CloseIsSent
  BY DEF Inv
<1> QED
  BY <1>1, Invariance, PTL

\* The tester's result is how far the handshake came
\* (quic_support_tester.py:77-85).
THEOREM VerdictCorrect == Spec => []VerdictIsPhase
<1>1. Inv => VerdictIsPhase
  BY DEF Inv
<1> QED
  BY <1>1, Invariance, PTL

\* START_TS is that of the first round, and the queries are few enough for the
\* bound not to be met.
LEMMA InvPaced == Inv => QueriesPaced
<1> SUFFICES ASSUME Inv, program = "migration", ~Due PROVE asked = now + 1
  BY DEF Inv, Paced, QueriesPaced
<1>1. /\ index = asked /\ start = 0 /\ asked <= now + 1
      /\ asked \in 0 .. MaxQueries /\ now \in 0 .. 2 * Limit
  BY DEF Inv, TypeOK, Paced
<1>2. MaxQueries >= now + 1
  BY <1>1, LimitAssumption
<1>3. now < asked \/ MaxQueries <= asked
  BY <1>1, Bounds DEF Due, Elapsed
<1> QED
  BY <1>1, <1>2, <1>3, Bounds

\* The migration keeps its schedule in both rounds, the second of which asks for
\* the first's intervals again, and with a ticket it does not wait for the end of
\* the handshake (migration_client.py:88-107).
THEOREM ScheduleKept == Spec => []QueriesPaced
BY Invariance, InvPaced, PTL
=============================================================================
