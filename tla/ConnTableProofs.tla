--------------------------- MODULE ConnTableProofs ----------------------------
(***************************************************************************)
(* Proofs about ConnTable, for any connections, ids and length of the      *)
(* event queues: typing, and that the table, the queues and the library    *)
(* agree, so that the lookup and the assertion of line 169 never fail.     *)
(*                                                                         *)
(* The order of the queue carries the proof: an id that is not routed yet  *)
(* has its "issued" event in front of its "retired" event.                 *)
(***************************************************************************)
EXTENDS ConnTable, TLAPS

IssuedEvent(x) == [type |-> "issued", cid |-> x]
RetiredEvent(x) == [type |-> "retired", cid |-> x]

At(c, i, e) == i \in 1 .. Len(events[c]) /\ events[c][i] = e

\* An id belongs to one connection, from its choice on.
Owned ==
  /\ \A c, d \in Conns : issued[c] \cap issued[d] # {} => c = d
  /\ \A c, d \in Conns : initial[c] \notin issued[d]
  /\ \A c, d \in Made : initial[c] = initial[d] => c = d
  /\ \A c \in Conns : retired[c] \subseteq issued[c]
  /\ \A c \in Conns \ Made : issued[c] = {} /\ events[c] = << >>

\* An id with an "issued" event is not in the table; the event comes once, and
\* with it a "retired" event if the id is retired.
IssuedInOrder ==
  \A c \in Conns, x \in Cids, i \in Nat : At(c, i, IssuedEvent(x)) =>
    /\ x \in issued[c] /\ x \notin DOMAIN table
    /\ \A j \in Nat : At(c, j, IssuedEvent(x)) => j = i
    /\ x \in retired[c] => \E j \in Nat : At(c, j, RetiredEvent(x))

\* An id with a "retired" event is in the table, or its "issued" event comes
\* first; the event comes once.
RetiredInOrder ==
  \A c \in Conns, x \in Cids, i \in Nat : At(c, i, RetiredEvent(x)) =>
    /\ x \in retired[c]
    /\ Routed(x, c) \/ \E j \in Nat : j < i /\ At(c, j, IssuedEvent(x))
    /\ \A j \in Nat : At(c, j, RetiredEvent(x)) => j = i

\* TableFollowsQueues, in terms of At.
Routes ==
  /\ \A c \in Conns : \A x \in issued[c] :
       /\ Routed(x, c) \/ x \in retired[c] \/ \E i \in Nat : At(c, i, IssuedEvent(x))
       /\ x \in retired[c] => ~Routed(x, c) \/ \E i \in Nat : At(c, i, RetiredEvent(x))
  /\ \A x \in DOMAIN table : x \in issued[table[x]] \/ x = initial[table[x]]
  /\ \A c \in Made : Routed(initial[c], c)

Inv ==
  TypeOK /\ Owned /\ IssuedInOrder /\ RetiredInOrder /\ Routes /\ AssertionHolds

LEMMA StepCases ==
  ASSUME [Next]_vars
  PROVE  \/ \E c \in Conns, d, h \in Cids : NewConnection(c, d, h)
         \/ \E d \in Cids : Datagram(d)
         \/ \E d, x \in Cids : RetireDatagram(d, x)
         \/ \E d \in Cids : CloseDatagram(d)
         \/ \E c \in Conns : Issued(c)
         \/ \E c \in Conns : Retired(c)
         \/ \E c \in Conns : Terminated(c)
         \/ \E c \in Conns : EventsDone(c)
         \/ \E c \in Conns, x \in Cids : SendNewId(c, x)
         \/ SendDone
         \/ UNCHANGED vars
  BY DEF Next

\* Awaiting an event is having it somewhere in the queue.
LEMMA AwaitsAt ==
  ASSUME NEW c \in Conns, NEW x, events \in [Conns -> Seq(Events)]
  PROVE  /\ Awaits(c, "issued", x) <=> \E i \in Nat : At(c, i, IssuedEvent(x))
         /\ Awaits(c, "retired", x) <=> \E i \in Nat : At(c, i, RetiredEvent(x))
  BY DEF Awaits, At, IssuedEvent, RetiredEvent

\* What queueing an event does to the queues.
LEMMA Queued ==
  ASSUME NEW c \in Conns, NEW e \in Events, events \in [Conns -> Seq(Events)], Queue(c, e)
  PROVE  /\ events' \in [Conns -> Seq(Events)]
         /\ \A d \in Conns, i \in Nat, f \in Events :
              At(d, i, f)' <=> At(d, i, f) \/ (d = c /\ i = Len(events[c]) + 1 /\ f = e)
<1>1. events'[c] = Append(events[c], e) /\ \A d \in Conns \ {c} : events'[d] = events[d]
  BY DEF Queue
<1>2. events' \in [Conns -> Seq(Events)]
  BY DEF Queue
<1>3. ASSUME NEW d \in Conns, NEW i \in Nat, NEW f \in Events
      PROVE  At(d, i, f)' <=> At(d, i, f) \/ (d = c /\ i = Len(events[c]) + 1 /\ f = e)
  <2>1. CASE d = c
    <3>1. Len(events'[c]) = Len(events[c]) + 1 /\ Len(events[c]) \in Nat
      BY <1>1
    <3>2. \A j \in 1 .. Len(events'[c]) :
            events'[c][j] = IF j <= Len(events[c]) THEN events[c][j] ELSE e
      BY <1>1
    <3> QED
      BY <2>1, <3>1, <3>2 DEF At
  <2>2. CASE d # c
    BY <1>1, <2>2 DEF At
  <2> QED
    BY <2>1, <2>2
<1> QED
  BY <1>2, <1>3

\* What taking the first event does to them.
LEMMA TakenFirst ==
  ASSUME NEW c \in Conns, events \in [Conns -> Seq(Events)], events[c] # << >>, Taken(c)
  PROVE  /\ events' \in [Conns -> Seq(Events)]
         /\ Head(events[c]) \in Events /\ At(c, 1, Head(events[c]))
         /\ \A d \in Conns, i \in Nat, f \in Events :
              At(d, i, f)' <=> IF d = c THEN i >= 1 /\ At(c, i + 1, f) ELSE At(d, i, f)
<1>1. events'[c] = Tail(events[c]) /\ \A d \in Conns \ {c} : events'[d] = events[d]
  BY DEF Taken
<1>2. events' \in [Conns -> Seq(Events)]
  BY DEF Taken
<1>3. Head(events[c]) \in Events /\ At(c, 1, Head(events[c]))
  BY DEF At
<1>4. ASSUME NEW d \in Conns, NEW i \in Nat, NEW f \in Events
      PROVE  At(d, i, f)' <=> IF d = c THEN i >= 1 /\ At(c, i + 1, f) ELSE At(d, i, f)
  <2>1. CASE d = c
    <3>1. Len(events'[c]) = Len(events[c]) - 1 /\ Len(events[c]) \in Nat
      BY <1>1
    <3>2. \A j \in 1 .. Len(events'[c]) : events'[c][j] = events[c][j + 1]
      BY <1>1
    <3> QED
      BY <2>1, <3>1, <3>2 DEF At
  <2>2. CASE d # c
    BY <1>1, <2>2 DEF At
  <2> QED
    BY <2>1, <2>2
<1> QED
  BY <1>2, <1>3, <1>4

LEMMA EventKinds ==
  ASSUME NEW x \in Cids, NEW y \in Cids
  PROVE  /\ IssuedEvent(x) \in Events /\ RetiredEvent(x) \in Events
         /\ IssuedEvent(x) # RetiredEvent(y)
         /\ IssuedEvent(x) = IssuedEvent(y) => x = y
         /\ RetiredEvent(x) = RetiredEvent(y) => x = y
  BY DEF IssuedEvent, RetiredEvent, Events

LEMMA InvInit == Init => Inv
  BY NobodyAssumption
  DEF Init, Inv, TypeOK, Owned, IssuedInOrder, RetiredInOrder, Routes, AssertionHolds,
      Made, At, Routed, Events

LEMMA NewConnectionStep ==
  ASSUME Inv, NEW c \in Conns, NEW d \in Cids, NEW h \in Cids, NewConnection(c, d, h)
  PROVE  Inv'
<1> USE DEF Inv
<1>1. /\ c \notin Made /\ d # h /\ Unused(d) /\ Unused(h)
      /\ initial' = [initial EXCEPT ![c] = d] /\ issued' = [issued EXCEPT ![c] = {h}]
      /\ DOMAIN table' = DOMAIN table \cup {d, h}
      /\ \A x \in DOMAIN table' : table'[x] = IF x \in {d, h} THEN c ELSE table[x]
      /\ turn' = c /\ UNCHANGED <<retired, closed, events, alive>>
  BY DEF NewConnection, Entered
<1>2. d \notin DOMAIN table /\ h \notin DOMAIN table
  BY <1>1 DEF Unused, Routes, TypeOK, Made
<1>3. Made' = Made \cup {c} /\ \A b \in Made : initial'[b] = initial[b] /\ b # c
  BY <1>1, NobodyAssumption DEF Made, TypeOK
<1>4. \A b \in Conns, i \in Nat, e \in Events : At(b, i, e)' <=> At(b, i, e)
  BY <1>1 DEF At
<1>5. \A x, b : Routed(x, b)' <=> Routed(x, b) \/ (b = c /\ x \in {d, h})
  BY <1>1, <1>2 DEF Routed
<1>6. TypeOK'
  BY <1>1, <1>3 DEF TypeOK
<1>7. Owned'
  BY <1>1, <1>3, NobodyAssumption DEF Owned, Unused, TypeOK, Made
<1>8. issued[c] = {} /\ events[c] = << >> /\ retired[c] = {}
  BY <1>1 DEF Owned, TypeOK, Made
<1>9. IssuedInOrder'
  <2> SUFFICES ASSUME NEW b \in Conns, NEW x \in Cids, NEW i \in Nat, At(b, i, IssuedEvent(x))'
               PROVE  /\ x \in issued'[b] /\ x \notin DOMAIN table'
                      /\ \A j \in Nat : At(b, j, IssuedEvent(x))' => j = i
                      /\ x \in retired'[b] => \E j \in Nat : At(b, j, RetiredEvent(x))'
    BY DEF IssuedInOrder
  <2>1. At(b, i, IssuedEvent(x)) /\ b # c
    BY <1>4, <1>8, EventKinds DEF At
  <2> QED
    BY <2>1, <1>1, <1>4, EventKinds DEF IssuedInOrder, Unused
<1>10. RetiredInOrder'
  BY <1>1, <1>4, <1>5, EventKinds DEF RetiredInOrder
<1>11. Routes'
  <2>1. ASSUME NEW b \in Conns, NEW x \in issued'[b]
        PROVE  /\ Routed(x, b)' \/ x \in retired'[b] \/ \E i \in Nat : At(b, i, IssuedEvent(x))'
               /\ x \in retired'[b] => ~Routed(x, b)' \/ \E i \in Nat : At(b, i, RetiredEvent(x))'
    <3>1. CASE b = c
      BY <3>1, <1>1, <1>5, <1>8 DEF TypeOK
    <3>2. CASE b # c
      BY <3>2, <1>1, <1>4, <1>5, EventKinds DEF Routes, TypeOK
    <3> QED
      BY <3>1, <3>2
  <2>2. ASSUME NEW x \in DOMAIN table'
        PROVE  x \in issued'[table'[x]] \/ x = initial'[table'[x]]
    <3>1. CASE x \in {d, h}
      BY <3>1, <1>1 DEF TypeOK
    <3>2. CASE x \notin {d, h}
      BY <3>2, <1>1, <1>3 DEF Routes, TypeOK
    <3> QED
      BY <3>1, <3>2
  <2>3. ASSUME NEW b \in Made'
        PROVE  Routed(initial[b], b)'
    BY <1>1, <1>3, <1>5 DEF Routes, TypeOK, Made
  <2> QED
    BY <2>1, <2>2, <2>3 DEF Routes
<1> QED
  BY <1>1, <1>6, <1>7, <1>9, <1>10, <1>11 DEF AssertionHolds

\* A turn that touches neither the table nor a queue.
LEMMA OtherStep ==
  ASSUME Inv, turn' \in {"receive", "send"} \cup Conns,
         UNCHANGED <<table, initial, issued, retired, closed, events, alive>>
  PROVE  Inv'
<1>1. \A b, i, e : At(b, i, e)' <=> At(b, i, e)
  BY DEF At
<1>2. \A x, b : Routed(x, b)' <=> Routed(x, b)
  BY DEF Routed
<1>3. Made' = Made
  BY DEF Made
<1>4. TypeOK' /\ Owned'
  BY <1>3 DEF Inv, TypeOK, Owned
<1>5. IssuedInOrder' /\ RetiredInOrder'
  BY <1>1, <1>2 DEF Inv, IssuedInOrder, RetiredInOrder
<1>6. Routes'
  BY <1>1, <1>2, <1>3 DEF Inv, Routes
<1> QED
  BY <1>4, <1>5, <1>6 DEF Inv, AssertionHolds

\* The id is routed or has its "issued" event, for it is not retired yet.
LEMMA RetireDatagramStep ==
  ASSUME Inv, NEW d \in Cids, NEW x \in Cids, RetireDatagram(d, x)
  PROVE  Inv'
<1> USE DEF Inv
<1> DEFINE c == table[d]
<1>1. /\ c \in Conns /\ x \in issued[c] \ retired[c]
      /\ retired' = [retired EXCEPT ![c] = @ \cup {x}]
      /\ Queue(c, RetiredEvent(x)) /\ turn' = c
      /\ UNCHANGED <<table, initial, issued, closed, alive>>
  BY DEF RetireDatagram, RetiredEvent, TypeOK, Made
<1>2. /\ events' \in [Conns -> Seq(Events)]
      /\ \A b \in Conns, i \in Nat, e \in Events :
           At(b, i, e)' <=> At(b, i, e) \/ (b = c /\ i = Len(events[c]) + 1 /\ e = RetiredEvent(x))
  BY <1>1, Queued, EventKinds DEF TypeOK
<1>3. Len(events[c]) \in Nat /\ \A i \in Nat, e \in Events : At(c, i, e) => i < Len(events[c]) + 1
  BY <1>1 DEF TypeOK, At
<1>4. (\A y, b : Routed(y, b)' <=> Routed(y, b)) /\ Made' = Made
  BY <1>1 DEF Routed, Made
<1>5. TypeOK'
  BY <1>1, <1>2, <1>4 DEF TypeOK
<1>6. Owned'
  <2>1. c \in Made
    BY DEF RetireDatagram, TypeOK
  <2> QED
    BY <1>1, <1>4, <2>1 DEF Owned, TypeOK, Made, Queue
<1>7. IssuedInOrder'
  BY <1>1, <1>2, EventKinds DEF IssuedInOrder
<1>8. RetiredInOrder'
  <2> SUFFICES ASSUME NEW b \in Conns, NEW y \in Cids, NEW i \in Nat, At(b, i, RetiredEvent(y))'
               PROVE  /\ y \in retired'[b]
                      /\ Routed(y, b)' \/ \E j \in Nat : j < i /\ At(b, j, IssuedEvent(y))'
                      /\ \A j \in Nat : At(b, j, RetiredEvent(y))' => j = i
    BY DEF RetiredInOrder
  <2>1. CASE At(b, i, RetiredEvent(y))
    <3>1. y \in retired[b] /\ ~(b = c /\ y = x)
      BY <1>1, <2>1 DEF RetiredInOrder
    <3>2. \A j \in Nat : At(b, j, RetiredEvent(y))' => At(b, j, RetiredEvent(y))
      BY <1>2, <3>1, EventKinds
    <3> QED
      BY <1>1, <1>2, <1>4, <2>1, <3>1, <3>2, EventKinds DEF RetiredInOrder, TypeOK
  <2>2. CASE ~At(b, i, RetiredEvent(y))
    <3>1. b = c /\ i = Len(events[c]) + 1 /\ y = x
      BY <1>2, <2>2, EventKinds
    <3>2. \A j \in Nat : ~At(c, j, RetiredEvent(x))
      BY <1>1 DEF RetiredInOrder
    <3>3. Routed(x, c) \/ \E j \in Nat : At(c, j, IssuedEvent(x))
      BY <1>1 DEF Routes
    <3> QED
      BY <1>1, <1>2, <1>3, <1>4, <3>1, <3>2, <3>3, EventKinds DEF TypeOK
  <2> QED
    BY <2>1, <2>2
<1>9. Routes'
  <2>1. ASSUME NEW b \in Conns, NEW y \in issued'[b]
        PROVE  /\ Routed(y, b)' \/ y \in retired'[b] \/ \E i \in Nat : At(b, i, IssuedEvent(y))'
               /\ y \in retired'[b] => ~Routed(y, b)' \/ \E i \in Nat : At(b, i, RetiredEvent(y))'
    <3>1. y \in issued[b] /\ y \in Cids
      BY <1>1 DEF TypeOK
    <3>2. CASE b = c /\ y = x
      BY <1>1, <1>2, <1>3, <3>2, EventKinds DEF TypeOK
    <3>3. CASE ~(b = c /\ y = x)
      <4>1. y \in retired'[b] <=> y \in retired[b]
        BY <1>1, <3>3 DEF TypeOK
      <4> QED
        BY <1>2, <1>4, <3>1, <4>1, EventKinds DEF Routes
    <3> QED
      BY <3>2, <3>3
  <2>2. /\ \A y \in DOMAIN table' : y \in issued'[table'[y]] \/ y = initial'[table'[y]]
        /\ \A b \in Made' : Routed(initial[b], b)'
    BY <1>1, <1>4 DEF Routes, Routed, Made
  <2> QED
    BY <2>1, <2>2 DEF Routes
<1> QED
  BY <1>1, <1>5, <1>6, <1>7, <1>8, <1>9 DEF AssertionHolds

\* An event that is neither "issued" nor "retired" comes or goes, or an id is
\* issued: the order of the others stays.
LEMMA CloseDatagramStep ==
  ASSUME Inv, NEW d \in Cids, CloseDatagram(d)
  PROVE  Inv'
<1> USE DEF Inv
<1> DEFINE c == table[d]
<1> DEFINE e0 == [type |-> "terminated", cid |-> Nobody]
<1>1. /\ c \in Conns /\ c \in Made
      /\ closed' = closed \cup {c}
      /\ Queue(c, e0) /\ turn' = c
      /\ UNCHANGED <<table, initial, issued, retired, alive>>
  BY DEF CloseDatagram, TypeOK, Made
<1>2. /\ events' \in [Conns -> Seq(Events)]
      /\ \A b \in Conns, i \in Nat, e \in Events :
           At(b, i, e)' <=> At(b, i, e) \/ (b = c /\ i = Len(events[c]) + 1 /\ e = e0)
  <2>1. e0 \in Events
    BY DEF Events
  <2> QED
    BY <1>1, <2>1, Queued DEF TypeOK
<1>3. \A b \in Conns, i \in Nat, y \in Cids :
        /\ At(b, i, IssuedEvent(y))' <=> At(b, i, IssuedEvent(y))
        /\ At(b, i, RetiredEvent(y))' <=> At(b, i, RetiredEvent(y))
  <2>1. \A y \in Cids : IssuedEvent(y) # e0 /\ RetiredEvent(y) # e0
    BY DEF IssuedEvent, RetiredEvent
  <2> QED
    BY <1>2, <2>1, EventKinds
<1>4. (\A y, b : Routed(y, b)' <=> Routed(y, b)) /\ Made' = Made
  BY <1>1 DEF Routed, Made
<1>5. TypeOK'
  BY <1>1, <1>2, <1>4 DEF TypeOK
<1>6. Owned'
  BY <1>1, <1>4 DEF Owned, TypeOK, Made, Queue
<1>7. IssuedInOrder' /\ RetiredInOrder'
  BY <1>1, <1>3, <1>4 DEF IssuedInOrder, RetiredInOrder
<1>8. Routes'
  <2>1. \A b \in Conns : issued'[b] = issued[b] /\ issued[b] \subseteq Cids
    BY <1>1 DEF TypeOK
  <2> QED
    BY <1>1, <1>3, <1>4, <2>1 DEF Routes
<1> QED
  BY <1>1, <1>5, <1>6, <1>7, <1>8 DEF AssertionHolds

LEMMA SendNewIdStep ==
  ASSUME Inv, NEW c \in Conns, NEW x \in Cids, SendNewId(c, x)
  PROVE  Inv'
<1> USE DEF Inv
<1>1. /\ c \in Made /\ Unused(x)
      /\ issued' = [issued EXCEPT ![c] = @ \cup {x}]
      /\ Queue(c, IssuedEvent(x))
      /\ UNCHANGED <<table, initial, retired, closed, turn, alive>>
  BY DEF SendNewId, IssuedEvent
<1>2. /\ events' \in [Conns -> Seq(Events)]
      /\ \A b \in Conns, i \in Nat, e \in Events :
           At(b, i, e)' <=> At(b, i, e) \/ (b = c /\ i = Len(events[c]) + 1 /\ e = IssuedEvent(x))
  BY <1>1, Queued, EventKinds DEF TypeOK
<1>3. Len(events[c]) \in Nat
  BY DEF TypeOK
<1>4. (\A y, b : Routed(y, b)' <=> Routed(y, b)) /\ Made' = Made
  BY <1>1 DEF Routed, Made
<1>5. TypeOK'
  BY <1>1, <1>2, <1>4 DEF TypeOK
<1>6. Owned'
  BY <1>1, <1>4 DEF Owned, Unused, TypeOK, Made, Queue
<1>7. x \notin DOMAIN table
  BY <1>1 DEF Unused, Routes, TypeOK, Made
<1>8. IssuedInOrder'
  <2> SUFFICES ASSUME NEW b \in Conns, NEW y \in Cids, NEW i \in Nat, At(b, i, IssuedEvent(y))'
               PROVE  /\ y \in issued'[b] /\ y \notin DOMAIN table'
                      /\ \A j \in Nat : At(b, j, IssuedEvent(y))' => j = i
                      /\ y \in retired'[b] => \E j \in Nat : At(b, j, RetiredEvent(y))'
    BY DEF IssuedInOrder
  <2>1. CASE At(b, i, IssuedEvent(y))
    <3>1. y \in issued[b] /\ y # x
      BY <1>1, <2>1 DEF IssuedInOrder, Unused
    <3> QED
      BY <1>1, <1>2, <2>1, <3>1, EventKinds DEF IssuedInOrder, TypeOK
  <2>2. CASE ~At(b, i, IssuedEvent(y))
    <3>1. b = c /\ i = Len(events[c]) + 1 /\ y = x
      BY <1>2, <2>2, EventKinds
    <3>2. \A j \in Nat : ~At(c, j, IssuedEvent(x))
      BY <1>1 DEF IssuedInOrder, Unused
    <3>3. x \notin retired[c]
      BY <1>1 DEF Owned, Unused
    <3> QED
      BY <1>1, <1>2, <1>7, <3>1, <3>2, <3>3, EventKinds DEF TypeOK
  <2> QED
    BY <2>1, <2>2
<1>9. RetiredInOrder'
  BY <1>1, <1>2, <1>4, EventKinds DEF RetiredInOrder
<1>10. Routes'
  <2>1. ASSUME NEW b \in Conns, NEW y \in issued'[b]
        PROVE  /\ Routed(y, b)' \/ y \in retired'[b] \/ \E i \in Nat : At(b, i, IssuedEvent(y))'
               /\ y \in retired'[b] => ~Routed(y, b)' \/ \E i \in Nat : At(b, i, RetiredEvent(y))'
    <3>1. CASE b = c /\ y = x
      <4>1. x \notin retired[c] /\ ~Routed(x, c)
        BY <1>1, <1>7 DEF Owned, Unused, Routed
      <4>2. \E i \in Nat : At(c, i, IssuedEvent(x))'
        BY <1>2, <1>3, EventKinds
      <4> QED
        BY <1>1, <1>4, <3>1, <4>1, <4>2
    <3>2. CASE ~(b = c /\ y = x)
      <4>1. y \in issued[b] /\ y \in Cids
        BY <1>1, <3>2 DEF TypeOK
      <4> QED
        BY <1>1, <1>2, <1>4, <4>1, EventKinds DEF Routes
    <3> QED
      BY <3>1, <3>2
  <2>2. /\ \A y \in DOMAIN table' : y \in issued'[table'[y]] \/ y = initial'[table'[y]]
        /\ \A b \in Made' : Routed(initial[b], b)'
    BY <1>1, <1>4 DEF Routes, Routed, Made, TypeOK
  <2> QED
    BY <2>1, <2>2 DEF Routes
<1> QED
  BY <1>1, <1>5, <1>6, <1>8, <1>9, <1>10 DEF AssertionHolds

\* The event says that a new id goes into the table.
LEMMA IssuedStep ==
  ASSUME Inv, NEW c \in Conns, Issued(c)
  PROVE  Inv'
<1> USE DEF Inv
<1>0. events[c] # << >> /\ Taken(c) /\ Head(events[c]).type = "issued"
  BY DEF Issued, NextEvent
<1>2. /\ events' \in [Conns -> Seq(Events)]
      /\ Head(events[c]) \in Events /\ At(c, 1, Head(events[c]))
      /\ \A b \in Conns, i \in Nat, f \in Events :
           At(b, i, f)' <=> IF b = c THEN i >= 1 /\ At(c, i + 1, f) ELSE At(b, i, f)
  BY <1>0, TakenFirst DEF TypeOK
<1>3. PICK x \in Cids : Head(events[c]) = IssuedEvent(x)
  BY <1>0, <1>2 DEF Events, IssuedEvent
<1>1. /\ DOMAIN table' = DOMAIN table \cup {x}
      /\ \A y \in DOMAIN table' : table'[y] = IF y = x THEN c ELSE table[y]
      /\ UNCHANGED <<initial, issued, retired, closed, turn, alive>>
  BY <1>3 DEF Issued, Entered, IssuedEvent
<1>4. /\ x \in issued[c] /\ x \notin DOMAIN table
      /\ x \in retired[c] => \E i \in Nat : At(c, i, RetiredEvent(x))
  BY <1>2, <1>3 DEF IssuedInOrder
<1>5. \A y, b : Routed(y, b)' <=> Routed(y, b) \/ (y = x /\ b = c)
  BY <1>1, <1>4 DEF Routed
<1>6. Made' = Made /\ c \in Made
  BY <1>1, <1>4 DEF Made, Owned
<1>7. TypeOK'
  BY <1>1, <1>2, <1>3, <1>6 DEF TypeOK
<1>8. Owned'
  BY <1>0, <1>1, <1>6 DEF Owned, Made, Taken, TypeOK
<1>9. \A b \in Conns, i \in Nat : ~At(b, i, IssuedEvent(x))'
  <2> SUFFICES ASSUME NEW b \in Conns, NEW i \in Nat, At(b, i, IssuedEvent(x))'
               PROVE  FALSE
    OBVIOUS
  <2>1. CASE b = c
    <3>1. i >= 1 /\ At(c, i + 1, IssuedEvent(x)) /\ At(c, 1, IssuedEvent(x))
      BY <1>2, <1>3, <2>1, EventKinds
    <3>2. i + 1 = 1
      BY <1>3, <3>1 DEF IssuedInOrder
    <3> QED
      BY <3>1, <3>2
  <2>2. CASE b # c
    <3>1. At(b, i, IssuedEvent(x))
      BY <1>2, <1>3, <2>2, EventKinds
    <3>2. x \in issued[b]
      BY <1>3, <3>1 DEF IssuedInOrder
    <3> QED
      BY <1>4, <2>2, <3>2 DEF Owned
  <2> QED
    BY <2>1, <2>2
<1>14. ASSUME NEW b \in Conns, NEW i \in Nat, NEW e \in Events, e # IssuedEvent(x), At(b, i, e)
       PROVE  \E k \in Nat : At(b, k, e)'
  <2>1. CASE b = c
    <3>1. i >= 1 /\ i # 1
      BY <1>2, <1>3, <1>14, <2>1 DEF At
    <3>2. i - 1 \in Nat /\ i - 1 >= 1 /\ (i - 1) + 1 = i
      BY <3>1
    <3> QED
      BY <1>2, <1>14, <2>1, <3>2
  <2>2. CASE b # c
    BY <1>2, <1>14, <2>2
  <2> QED
    BY <2>1, <2>2
<1>10. IssuedInOrder'
  <2> SUFFICES ASSUME NEW b \in Conns, NEW y \in Cids, NEW i \in Nat, At(b, i, IssuedEvent(y))'
               PROVE  /\ y \in issued'[b] /\ y \notin DOMAIN table'
                      /\ \A j \in Nat : At(b, j, IssuedEvent(y))' => j = i
                      /\ y \in retired'[b] => \E j \in Nat : At(b, j, RetiredEvent(y))'
    BY DEF IssuedInOrder
  <2>1. y # x
    BY <1>9
  <2> DEFINE k == IF b = c THEN i + 1 ELSE i
  <2>2. k \in Nat /\ At(b, k, IssuedEvent(y))
    BY <1>2, EventKinds
  <2>3. /\ y \in issued[b] /\ y \notin DOMAIN table
        /\ y \in retired[b] => \E j \in Nat : At(b, j, RetiredEvent(y))
    BY <2>2 DEF IssuedInOrder
  <2>4. \A j \in Nat : At(b, j, IssuedEvent(y))' => j = i
    <3> SUFFICES ASSUME NEW j \in Nat, At(b, j, IssuedEvent(y))' PROVE j = i
      OBVIOUS
    <3>1. At(b, IF b = c THEN j + 1 ELSE j, IssuedEvent(y))
      BY <1>2, EventKinds
    <3>2. (IF b = c THEN j + 1 ELSE j) = k
      BY <2>2, <3>1 DEF IssuedInOrder
    <3> QED
      BY <3>2
  <2>5. (\E j \in Nat : At(b, j, RetiredEvent(y))) => \E j \in Nat : At(b, j, RetiredEvent(y))'
    BY <1>14, EventKinds
  <2> QED
    BY <1>1, <2>1, <2>3, <2>4, <2>5
<1>11. RetiredInOrder'
  <2> SUFFICES ASSUME NEW b \in Conns, NEW y \in Cids, NEW i \in Nat, At(b, i, RetiredEvent(y))'
               PROVE  /\ y \in retired'[b]
                      /\ Routed(y, b)' \/ \E j \in Nat : j < i /\ At(b, j, IssuedEvent(y))'
                      /\ \A j \in Nat : At(b, j, RetiredEvent(y))' => j = i
    BY DEF RetiredInOrder
  <2>1. CASE b = c
    <3>1. At(c, i + 1, RetiredEvent(y)) /\ i >= 1
      BY <1>2, <2>1, EventKinds
    <3>2. Routed(y, c) \/ \E j \in Nat : j < i + 1 /\ At(c, j, IssuedEvent(y))
      BY <3>1 DEF RetiredInOrder
    <3>3. ASSUME NEW j \in Nat, j < i + 1, At(c, j, IssuedEvent(y)), y # x
          PROVE  \E k \in Nat : k < i /\ At(c, k, IssuedEvent(y))'
      <4>1. j >= 1 /\ j # 1
        BY <1>2, <1>3, <3>3, EventKinds DEF At
      <4>2. j - 1 \in Nat /\ j - 1 >= 1 /\ j - 1 < i /\ (j - 1) + 1 = j
        BY <3>3, <4>1
      <4> QED
        BY <1>2, <3>3, <4>2, EventKinds
    <3>4. Routed(y, b)' \/ \E j \in Nat : j < i /\ At(b, j, IssuedEvent(y))'
      BY <1>5, <2>1, <3>2, <3>3
    <3>5. \A j \in Nat : At(b, j, RetiredEvent(y))' => j = i
      <4> SUFFICES ASSUME NEW j \in Nat, At(b, j, RetiredEvent(y))' PROVE j = i
        OBVIOUS
      <4>1. At(c, j + 1, RetiredEvent(y))
        BY <1>2, <2>1, EventKinds
      <4>2. j + 1 = i + 1
        BY <3>1, <4>1 DEF RetiredInOrder
      <4> QED
        BY <4>2
    <3> QED
      BY <1>1, <2>1, <3>1, <3>4, <3>5 DEF RetiredInOrder
  <2>2. CASE b # c
    <3>1. \A j \in Nat : /\ At(b, j, RetiredEvent(y))' <=> At(b, j, RetiredEvent(y))
                         /\ At(b, j, IssuedEvent(y))' <=> At(b, j, IssuedEvent(y))
      BY <1>2, <2>2, EventKinds
    <3> QED
      BY <1>1, <1>5, <3>1 DEF RetiredInOrder
  <2> QED
    BY <2>1, <2>2
<1>12. Routes'
  <2>1. ASSUME NEW b \in Conns, NEW y \in issued'[b]
        PROVE  /\ Routed(y, b)' \/ y \in retired'[b] \/ \E i \in Nat : At(b, i, IssuedEvent(y))'
               /\ y \in retired'[b] => ~Routed(y, b)' \/ \E i \in Nat : At(b, i, RetiredEvent(y))'
    <3>1. y \in issued[b] /\ y \in Cids
      BY <1>1 DEF TypeOK
    <3>2. \A i \in Nat, e \in Events :
            e # IssuedEvent(x) /\ At(b, i, e) => \E k \in Nat : At(b, k, e)'
      BY <1>14
    <3>3. CASE y = x
      <4>1. b = c
        BY <1>4, <3>1, <3>3 DEF Owned
      <4>2. x \in retired[c] => \E i \in Nat : At(c, i, RetiredEvent(x))'
        BY <1>4, <3>2, <4>1, EventKinds
      <4> QED
        BY <1>1, <1>5, <3>3, <4>1, <4>2
    <3>4. CASE y # x
      <4>1. /\ Routed(y, b) \/ y \in retired[b] \/ \E i \in Nat : At(b, i, IssuedEvent(y))
            /\ y \in retired[b] => ~Routed(y, b) \/ \E i \in Nat : At(b, i, RetiredEvent(y))
        BY <3>1 DEF Routes
      <4>2. (\E i \in Nat : At(b, i, IssuedEvent(y))) => \E i \in Nat : At(b, i, IssuedEvent(y))'
        BY <3>1, <3>2, <3>4, EventKinds
      <4>3. (\E i \in Nat : At(b, i, RetiredEvent(y))) => \E i \in Nat : At(b, i, RetiredEvent(y))'
        BY <3>1, <3>2, EventKinds
      <4> QED
        BY <1>1, <1>5, <3>4, <4>1, <4>2, <4>3
    <3> QED
      BY <3>3, <3>4
  <2>2. /\ \A y \in DOMAIN table' : y \in issued'[table'[y]] \/ y = initial'[table'[y]]
        /\ \A b \in Made' : Routed(initial[b], b)'
    BY <1>1, <1>4, <1>5, <1>6 DEF Routes, Routed, Made, TypeOK
  <2> QED
    BY <2>1, <2>2 DEF Routes
<1> QED
  BY <1>1, <1>7, <1>8, <1>10, <1>11, <1>12 DEF AssertionHolds

\* The first event says that an id is retired: no "issued" event is before it,
\* so that the id is in the table.
LEMMA RetiredStep ==
  ASSUME Inv, NEW c \in Conns, Retired(c)
  PROVE  Inv'
<1> USE DEF Inv
<1>1. events[c] # << >> /\ Taken(c) /\ Head(events[c]).type = "retired"
  BY DEF Retired, NextEvent
<1>2. /\ events' \in [Conns -> Seq(Events)]
      /\ Head(events[c]) \in Events /\ At(c, 1, Head(events[c]))
      /\ \A b \in Conns, i \in Nat, f \in Events :
           At(b, i, f)' <=> IF b = c THEN i >= 1 /\ At(c, i + 1, f) ELSE At(b, i, f)
  BY <1>1, TakenFirst DEF TypeOK
<1>3. PICK x \in Cids : Head(events[c]) = RetiredEvent(x)
  BY <1>1, <1>2 DEF Events, RetiredEvent
<1>4. x \in retired[c] /\ Routed(x, c)
  <2>1. \A j \in Nat : j < 1 => ~At(c, j, IssuedEvent(x))
    BY DEF At
  <2> QED
    BY <1>2, <1>3, <2>1 DEF RetiredInOrder
<1>5. /\ DOMAIN table' = DOMAIN table \ {x} /\ alive'
      /\ \A y \in DOMAIN table' : table'[y] = table[y]
      /\ UNCHANGED <<initial, issued, retired, closed, turn>>
  <2>1. Head(events[c]).cid = x
    BY <1>3 DEF RetiredEvent
  <2>2. (Head(events[c]).cid \in DOMAIN table /\ table[Head(events[c]).cid] = c) = TRUE
    BY <1>4, <2>1 DEF Routed
  <2>3. alive'
    BY <2>2, Zenon DEF Retired
  <2> QED
    BY <2>1, <2>2, <2>3 DEF Retired
<1>6. \A y, b : Routed(y, b)' <=> Routed(y, b) /\ y # x
  BY <1>5 DEF Routed
<1>7. Made' = Made /\ x \in issued[c]
  BY <1>4, <1>5 DEF Made, Owned
<1>8. \A b \in Conns : initial[b] # x
  BY <1>7 DEF Owned
<1>9. TypeOK'
  BY <1>2, <1>5, <1>7 DEF TypeOK
<1>10. Owned'
  BY <1>1, <1>5, <1>7 DEF Owned, Made, Taken, TypeOK
<1>11. ASSUME NEW b \in Conns, NEW i \in Nat, NEW e \in Events, e # RetiredEvent(x), At(b, i, e)
       PROVE  \E k \in Nat : At(b, k, e)' /\ k = IF b = c THEN i - 1 ELSE i
  <2>1. CASE b = c
    <3>1. i >= 1 /\ i # 1
      BY <1>2, <1>3, <1>11, <2>1 DEF At
    <3>2. i - 1 \in Nat /\ i - 1 >= 1 /\ (i - 1) + 1 = i
      BY <3>1
    <3> QED
      BY <1>2, <1>11, <2>1, <3>2
  <2>2. CASE b # c
    BY <1>2, <1>11, <2>2
  <2> QED
    BY <2>1, <2>2
<1>12. IssuedInOrder'
  <2> SUFFICES ASSUME NEW b \in Conns, NEW y \in Cids, NEW i \in Nat, At(b, i, IssuedEvent(y))'
               PROVE  /\ y \in issued'[b] /\ y \notin DOMAIN table'
                      /\ \A j \in Nat : At(b, j, IssuedEvent(y))' => j = i
                      /\ y \in retired'[b] => \E j \in Nat : At(b, j, RetiredEvent(y))'
    BY DEF IssuedInOrder
  <2> DEFINE k == IF b = c THEN i + 1 ELSE i
  <2>1. k \in Nat /\ At(b, k, IssuedEvent(y))
    BY <1>2, EventKinds
  <2>2. /\ y \in issued[b] /\ y \notin DOMAIN table
        /\ y \in retired[b] => \E j \in Nat : At(b, j, RetiredEvent(y))
    BY <2>1 DEF IssuedInOrder
  <2>3. y # x
    BY <1>4, <2>2 DEF Routed
  <2>4. \A j \in Nat : At(b, j, IssuedEvent(y))' => j = i
    <3> SUFFICES ASSUME NEW j \in Nat, At(b, j, IssuedEvent(y))' PROVE j = i
      OBVIOUS
    <3>1. At(b, IF b = c THEN j + 1 ELSE j, IssuedEvent(y))
      BY <1>2, EventKinds
    <3>2. (IF b = c THEN j + 1 ELSE j) = k
      BY <2>1, <3>1 DEF IssuedInOrder
    <3> QED
      BY <3>2
  <2>5. (\E j \in Nat : At(b, j, RetiredEvent(y))) => \E j \in Nat : At(b, j, RetiredEvent(y))'
    BY <1>11, <2>3, EventKinds
  <2> QED
    BY <1>5, <2>2, <2>4, <2>5
<1>13. \A b \in Conns, i \in Nat : ~At(b, i, RetiredEvent(x))'
  <2> SUFFICES ASSUME NEW b \in Conns, NEW i \in Nat, At(b, i, RetiredEvent(x))'
               PROVE  FALSE
    OBVIOUS
  <2>1. CASE b = c
    <3>1. i >= 1 /\ At(c, i + 1, RetiredEvent(x)) /\ At(c, 1, RetiredEvent(x))
      BY <1>2, <1>3, <2>1, EventKinds
    <3>2. i + 1 = 1
      BY <1>3, <3>1 DEF RetiredInOrder
    <3> QED
      BY <3>1, <3>2
  <2>2. CASE b # c
    <3>1. At(b, i, RetiredEvent(x))
      BY <1>2, <1>3, <2>2, EventKinds
    <3>2. x \in issued[b]
      BY <1>3, <3>1 DEF RetiredInOrder, Owned
    <3> QED
      BY <1>7, <2>2, <3>2 DEF Owned
  <2> QED
    BY <2>1, <2>2
<1>14. RetiredInOrder'
  <2> SUFFICES ASSUME NEW b \in Conns, NEW y \in Cids, NEW i \in Nat, At(b, i, RetiredEvent(y))'
               PROVE  /\ y \in retired'[b]
                      /\ Routed(y, b)' \/ \E j \in Nat : j < i /\ At(b, j, IssuedEvent(y))'
                      /\ \A j \in Nat : At(b, j, RetiredEvent(y))' => j = i
    BY DEF RetiredInOrder
  <2>1. y # x
    BY <1>13
  <2> DEFINE k == IF b = c THEN i + 1 ELSE i
  <2>2. k \in Nat /\ At(b, k, RetiredEvent(y))
    BY <1>2, EventKinds
  <2>3. Routed(y, b) \/ \E j \in Nat : j < k /\ At(b, j, IssuedEvent(y))
    BY <2>2 DEF RetiredInOrder
  <2>4. ASSUME NEW j \in Nat, j < k, At(b, j, IssuedEvent(y))
        PROVE  \E l \in Nat : l < i /\ At(b, l, IssuedEvent(y))'
    BY <1>11, <2>4, EventKinds
  <2>5. \A j \in Nat : At(b, j, RetiredEvent(y))' => j = i
    <3> SUFFICES ASSUME NEW j \in Nat, At(b, j, RetiredEvent(y))' PROVE j = i
      OBVIOUS
    <3>1. At(b, IF b = c THEN j + 1 ELSE j, RetiredEvent(y))
      BY <1>2, EventKinds
    <3>2. (IF b = c THEN j + 1 ELSE j) = k
      BY <2>2, <3>1 DEF RetiredInOrder
    <3> QED
      BY <3>2
  <2> QED
    BY <1>5, <1>6, <2>1, <2>2, <2>3, <2>4, <2>5 DEF RetiredInOrder
<1>15. Routes'
  <2>1. ASSUME NEW b \in Conns, NEW y \in issued'[b]
        PROVE  /\ Routed(y, b)' \/ y \in retired'[b] \/ \E i \in Nat : At(b, i, IssuedEvent(y))'
               /\ y \in retired'[b] => ~Routed(y, b)' \/ \E i \in Nat : At(b, i, RetiredEvent(y))'
    <3>1. y \in issued[b] /\ y \in Cids
      BY <1>5 DEF TypeOK
    <3>2. CASE y = x
      <4>1. b = c
        BY <1>7, <3>1, <3>2 DEF Owned
      <4> QED
        BY <1>4, <1>5, <1>6, <3>2, <4>1
    <3>3. CASE y # x
      <4>1. /\ Routed(y, b) \/ y \in retired[b] \/ \E i \in Nat : At(b, i, IssuedEvent(y))
            /\ y \in retired[b] => ~Routed(y, b) \/ \E i \in Nat : At(b, i, RetiredEvent(y))
        BY <3>1 DEF Routes
      <4>2. (\E i \in Nat : At(b, i, IssuedEvent(y))) => \E i \in Nat : At(b, i, IssuedEvent(y))'
        BY <1>11, <3>1, EventKinds
      <4>3. (\E i \in Nat : At(b, i, RetiredEvent(y))) => \E i \in Nat : At(b, i, RetiredEvent(y))'
        BY <1>11, <3>1, <3>3, EventKinds
      <4> QED
        BY <1>5, <1>6, <3>3, <4>1, <4>2, <4>3
    <3> QED
      BY <3>2, <3>3
  <2>2. /\ \A y \in DOMAIN table' : y \in issued'[table'[y]] \/ y = initial'[table'[y]]
        /\ \A b \in Made' : Routed(initial[b], b)'
    BY <1>5, <1>6, <1>7, <1>8 DEF Routes, Routed, Made, TypeOK
  <2> QED
    BY <2>1, <2>2 DEF Routes
<1> QED
  BY <1>5, <1>9, <1>10, <1>12, <1>14, <1>15 DEF AssertionHolds

\* The first event is a termination: the others move up.
LEMMA TerminatedStep ==
  ASSUME Inv, NEW c \in Conns, Terminated(c)
  PROVE  Inv'
<1> USE DEF Inv
<1>1. /\ events[c] # << >> /\ Taken(c) /\ Head(events[c]).type = "terminated"
      /\ UNCHANGED <<table, initial, issued, retired, closed, turn, alive>>
  BY DEF Terminated, NextEvent
<1>2. /\ events' \in [Conns -> Seq(Events)]
      /\ At(c, 1, Head(events[c]))
      /\ \A b \in Conns, i \in Nat, f \in Events :
           At(b, i, f)' <=> IF b = c THEN i >= 1 /\ At(c, i + 1, f) ELSE At(b, i, f)
  BY <1>1, TakenFirst DEF TypeOK
<1>3. ASSUME NEW b \in Conns, NEW i \in Nat, NEW e \in Events,
             e.type # "terminated", At(b, i, e)
      PROVE  \E k \in Nat : At(b, k, e)' /\ k = IF b = c THEN i - 1 ELSE i
  <2>1. CASE b = c
    <3>1. i >= 1 /\ i # 1
      BY <1>1, <1>2, <1>3, <2>1 DEF At
    <3>2. i - 1 \in Nat /\ i - 1 >= 1 /\ (i - 1) + 1 = i
      BY <3>1
    <3> QED
      BY <1>2, <1>3, <2>1, <3>2
  <2>2. CASE b # c
    BY <1>2, <1>3, <2>2
  <2> QED
    BY <2>1, <2>2
<1>4. \A x \in Cids : /\ IssuedEvent(x) \in Events /\ IssuedEvent(x).type # "terminated"
                      /\ RetiredEvent(x) \in Events /\ RetiredEvent(x).type # "terminated"
  BY DEF IssuedEvent, RetiredEvent, Events
<1>5. \A y, b : Routed(y, b)' <=> Routed(y, b)
  BY <1>1 DEF Routed
<1>6. Made' = Made
  BY <1>1 DEF Made
<1>7. TypeOK'
  BY <1>1, <1>2, <1>6 DEF TypeOK
<1>8. Owned'
  BY <1>1, <1>6 DEF Owned, Made, Taken, TypeOK
<1>9. IssuedInOrder'
  <2> SUFFICES ASSUME NEW b \in Conns, NEW y \in Cids, NEW i \in Nat, At(b, i, IssuedEvent(y))'
               PROVE  /\ y \in issued'[b] /\ y \notin DOMAIN table'
                      /\ \A j \in Nat : At(b, j, IssuedEvent(y))' => j = i
                      /\ y \in retired'[b] => \E j \in Nat : At(b, j, RetiredEvent(y))'
    BY DEF IssuedInOrder
  <2> DEFINE k == IF b = c THEN i + 1 ELSE i
  <2>1. k \in Nat /\ At(b, k, IssuedEvent(y))
    BY <1>2, <1>4
  <2>2. /\ y \in issued[b] /\ y \notin DOMAIN table
        /\ y \in retired[b] => \E j \in Nat : At(b, j, RetiredEvent(y))
    BY <2>1 DEF IssuedInOrder
  <2>3. \A j \in Nat : At(b, j, IssuedEvent(y))' => j = i
    <3> SUFFICES ASSUME NEW j \in Nat, At(b, j, IssuedEvent(y))' PROVE j = i
      OBVIOUS
    <3>1. At(b, IF b = c THEN j + 1 ELSE j, IssuedEvent(y))
      BY <1>2, <1>4
    <3>2. (IF b = c THEN j + 1 ELSE j) = k
      BY <2>1, <3>1 DEF IssuedInOrder
    <3> QED
      BY <3>2
  <2>4. (\E j \in Nat : At(b, j, RetiredEvent(y))) => \E j \in Nat : At(b, j, RetiredEvent(y))'
    BY <1>3, <1>4
  <2> QED
    BY <1>1, <2>2, <2>3, <2>4
<1>10. RetiredInOrder'
  <2> SUFFICES ASSUME NEW b \in Conns, NEW y \in Cids, NEW i \in Nat, At(b, i, RetiredEvent(y))'
               PROVE  /\ y \in retired'[b]
                      /\ Routed(y, b)' \/ \E j \in Nat : j < i /\ At(b, j, IssuedEvent(y))'
                      /\ \A j \in Nat : At(b, j, RetiredEvent(y))' => j = i
    BY DEF RetiredInOrder
  <2> DEFINE k == IF b = c THEN i + 1 ELSE i
  <2>1. k \in Nat /\ At(b, k, RetiredEvent(y))
    BY <1>2, <1>4
  <2>2. Routed(y, b) \/ \E j \in Nat : j < k /\ At(b, j, IssuedEvent(y))
    BY <2>1 DEF RetiredInOrder
  <2>3. ASSUME NEW j \in Nat, j < k, At(b, j, IssuedEvent(y))
        PROVE  \E l \in Nat : l < i /\ At(b, l, IssuedEvent(y))'
    BY <1>3, <1>4, <2>3
  <2>4. \A j \in Nat : At(b, j, RetiredEvent(y))' => j = i
    <3> SUFFICES ASSUME NEW j \in Nat, At(b, j, RetiredEvent(y))' PROVE j = i
      OBVIOUS
    <3>1. At(b, IF b = c THEN j + 1 ELSE j, RetiredEvent(y))
      BY <1>2, <1>4
    <3>2. (IF b = c THEN j + 1 ELSE j) = k
      BY <2>1, <3>1 DEF RetiredInOrder
    <3> QED
      BY <3>2
  <2> QED
    BY <1>1, <1>5, <2>1, <2>2, <2>3, <2>4 DEF RetiredInOrder
<1>11. Routes'
  <2>1. ASSUME NEW b \in Conns, NEW y \in issued'[b]
        PROVE  /\ Routed(y, b)' \/ y \in retired'[b] \/ \E i \in Nat : At(b, i, IssuedEvent(y))'
               /\ y \in retired'[b] => ~Routed(y, b)' \/ \E i \in Nat : At(b, i, RetiredEvent(y))'
    <3>1. y \in issued[b] /\ y \in Cids
      BY <1>1 DEF TypeOK
    <3>2. /\ Routed(y, b) \/ y \in retired[b] \/ \E i \in Nat : At(b, i, IssuedEvent(y))
          /\ y \in retired[b] => ~Routed(y, b) \/ \E i \in Nat : At(b, i, RetiredEvent(y))
      BY <3>1 DEF Routes
    <3>3. (\E i \in Nat : At(b, i, IssuedEvent(y))) => \E i \in Nat : At(b, i, IssuedEvent(y))'
      BY <1>3, <1>4, <3>1
    <3>4. (\E i \in Nat : At(b, i, RetiredEvent(y))) => \E i \in Nat : At(b, i, RetiredEvent(y))'
      BY <1>3, <1>4, <3>1
    <3> QED
      BY <1>1, <1>5, <3>2, <3>3, <3>4
  <2>2. /\ \A y \in DOMAIN table' : y \in issued'[table'[y]] \/ y = initial'[table'[y]]
        /\ \A b \in Made' : Routed(initial[b], b)'
    BY <1>1, <1>5, <1>6 DEF Routes, Routed, Made
  <2> QED
    BY <2>1, <2>2 DEF Routes
<1> QED
  BY <1>1, <1>7, <1>8, <1>9, <1>10, <1>11 DEF AssertionHolds

LEMMA InvStep == Inv /\ [Next]_vars => Inv'
<1> SUFFICES ASSUME Inv, [Next]_vars PROVE Inv'
  OBVIOUS
<1>1. ASSUME NEW d \in Cids, Datagram(d) PROVE Inv'
  <2>1. table[d] \in Conns
    BY <1>1 DEF Datagram, Inv, TypeOK, Made
  <2> QED
    BY <1>1, <2>1, OtherStep DEF Datagram
<1>2. ASSUME NEW c \in Conns, EventsDone(c) PROVE Inv'
  BY <1>2, OtherStep DEF EventsDone
<1>3. CASE SendDone
  BY <1>3, OtherStep DEF SendDone
<1>4. CASE UNCHANGED vars
  BY <1>4, OtherStep DEF vars, Inv, TypeOK
<1> QED
  BY <1>1, <1>2, <1>3, <1>4, StepCases, NewConnectionStep, RetireDatagramStep,
     CloseDatagramStep, IssuedStep, RetiredStep, TerminatedStep, SendNewIdStep

LEMMA Invariance == Spec => []Inv
  BY InvInit, InvStep, PTL DEF Spec

\* The table holds ids of connections that were made, and the queues events.
THEOREM TypeCorrect == Spec => []TypeOK
<1>1. Inv => TypeOK
  BY DEF Inv
<1> QED
  BY <1>1, Invariance, PTL

\* For any connections, ids and order of datagrams, CONNECTIONS, the queued
\* events and the library agree (process_quic_events and serve).
THEOREM TableAgrees == Spec => []TableFollowsQueues
<1>1. Inv => TableFollowsQueues
  <2> SUFFICES ASSUME Inv PROVE TableFollowsQueues
    OBVIOUS
  <2>1. events \in [Conns -> Seq(Events)]
    BY DEF Inv, TypeOK
  <2>2. \A c \in Conns, x \in Cids :
          /\ Awaits(c, "issued", x) <=> \E i \in Nat : At(c, i, IssuedEvent(x))
          /\ Awaits(c, "retired", x) <=> \E i \in Nat : At(c, i, RetiredEvent(x))
    BY <2>1, AwaitsAt
  <2>3. \A c \in Conns : issued[c] \subseteq Cids
    BY DEF Inv, TypeOK
  <2> QED
    BY <2>2, <2>3 DEF Inv, Routes, TableFollowsQueues
<1> QED
  BY <1>1, Invariance, PTL

\* The lookup and the assertion of line 169 never fail: the thread never ends.
THEOREM LookupsSucceed == Spec => []AssertionHolds
<1>1. Inv => AssertionHolds
  BY DEF Inv
<1> QED
  BY <1>1, Invariance, PTL
=============================================================================
