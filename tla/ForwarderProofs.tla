-------------------------- MODULE ForwarderProofs ---------------------------
(***************************************************************************)
(* Three parts.  The forwarder implements a pipe that keeps the order of   *)
(* its packets (LossyPipe), for any packets, names and answers of the name *)
(* servers: this needs only that the packet in hand is one, and that queue *)
(* and sent are sequences.  The checksum it writes is one that a receiver  *)
(* accepts, for any header and any size of words.  A packet leaves only    *)
(* for an address that a valid record gives for its server's name: that    *)
(* the record is valid needs nothing of the replies, that it belongs to    *)
(* the name needs replies that keep to the point (ToThePoint).             *)
(***************************************************************************)
EXTENDS Forwarder, IpChecksum, NaturalsInduction, WellFoundedInduction,
        SequenceTheorems, TLAPS

\* What the refinement rests on.
Carried ==
  /\ queue \in Seq(Packets)
  /\ hand \in Packets \cup {None}
  /\ hand # None => alive
  /\ Len(sent) \in Nat
  /\ DOMAIN sent = 1 .. Len(sent)

\* A step of the resolver, which sees none of the forwarder's state, and the
\* steps of the loop.
LEMMA StepCases ==
  ASSUME [Next]_vars
  PROVE  \/ UNCHANGED forwarderVars
         \/ \E p \in Packets : Arrive(p)
         \/ Receive \/ Skip \/ ReceiveFragment
         \/ Forward \/ SendFails \/ Fail \/ Cancel
         \/ Tick
  BY DEF Next, Serve, Resolve, Ended, vars

LEMMA CarriedInit == Init => Carried
  BY DEF Init, Carried

LEMMA CarriedStep == Carried /\ [Next]_vars => Carried'
<1> SUFFICES ASSUME Carried, [Next]_vars PROVE Carried'
  OBVIOUS
<1> USE DEF Carried
<1>1. CASE UNCHANGED forwarderVars
  BY <1>1 DEF forwarderVars
<1>2. CASE \E p \in Packets : Arrive(p)
  BY <1>2 DEF Arrive
<1>3. CASE Receive
  BY <1>3 DEF Receive, Takes
<1>4. CASE Skip \/ ReceiveFragment
  BY <1>4 DEF Skip, ReceiveFragment, Takes
<1>5. CASE Forward
  <2>1. PICK a : sent' = Append(sent, [packet |-> hand, to |-> a])
    BY <1>5 DEF Forward
  <2>2. Len(sent') = Len(sent) + 1 /\ DOMAIN sent' = 1 .. Len(sent) + 1
    BY <2>1
  <2> QED
    BY <1>5, <2>2 DEF Forward, Release
<1>6. CASE SendFails \/ Fail \/ Cancel
  BY <1>6 DEF SendFails, Fail, Cancel, Release
<1>7. CASE Tick
  BY <1>7 DEF Tick
<1> QED
  BY <1>1, <1>2, <1>3, <1>4, <1>5, <1>6, <1>7, StepCases

-----------------------------------------------------------------------------
(* The mapping *)

Pending == IF hand = None THEN queue ELSE <<hand>> \o queue

Delivered == [i \in DOMAIN sent |-> sent[i].packet]

\* The packet in hand stands before the queue: what that does to the operators
\* of LossyPipe.
LEMMA InFront ==
  ASSUME NEW q \in Seq(Packets), NEW h \in Packets
  PROVE  /\ <<h>> \o q # << >>
         /\ Head(<<h>> \o q) = h
         /\ Tail(<<h>> \o q) = q
         /\ \A p \in Packets : <<h>> \o Append(q, p) = Append(<<h>> \o q, p)
<1> DEFINE hq == <<h>> \o q
<1>1. hq \in Seq(Packets) /\ Len(hq) = Len(q) + 1
  OBVIOUS
<1>2. \A i \in 1 .. Len(q) + 1 : hq[i] = IF i = 1 THEN h ELSE q[i - 1]
  OBVIOUS
<1>3. Tail(hq) = q
  <2>1. Tail(hq) \in Seq(Packets) /\ Len(Tail(hq)) = Len(q)
    BY <1>1
  <2>2. \A i \in 1 .. Len(q) : Tail(hq)[i] = q[i]
    BY <1>1, <1>2
  <2> QED
    BY <2>1, <2>2
<1>4. ASSUME NEW p \in Packets
      PROVE  <<h>> \o Append(q, p) = Append(hq, p)
  <2>1. /\ <<h>> \o Append(q, p) \in Seq(Packets)
        /\ Append(hq, p) \in Seq(Packets)
        /\ Len(<<h>> \o Append(q, p)) = Len(q) + 2
        /\ Len(Append(hq, p)) = Len(q) + 2
    BY <1>1
  <2>2. \A i \in 1 .. Len(q) + 2 : (<<h>> \o Append(q, p))[i] = Append(hq, p)[i]
    BY <1>1, <1>2
  <2> QED
    BY <2>1, <2>2
<1>5. hq # << >> /\ Head(hq) = h
  BY <1>1, <1>2
<1> QED
  BY <1>3, <1>4, <1>5

LEMMA DeliveredGrows ==
  ASSUME Carried, NEW a, sent' = Append(sent, [packet |-> hand, to |-> a])
  PROVE  Delivered' = Append(Delivered, hand)
<1> DEFINE n == Len(sent)
<1>1. n \in Nat /\ DOMAIN sent' = 1 .. n + 1
  BY DEF Carried
<1>2. \A i \in 1 .. n + 1 : sent'[i].packet = IF i = n + 1 THEN hand ELSE sent[i].packet
  BY DEF Carried
<1>3. Len(Delivered) = n /\ DOMAIN Delivered = 1 .. n
  BY DEF Carried, Delivered
<1>4. Delivered' = [i \in 1 .. n + 1 |-> IF i = n + 1 THEN hand ELSE Delivered[i]]
  BY <1>1, <1>2 DEF Delivered, Carried
<1>5. Append(Delivered, hand)
        = [i \in 1 .. n + 1 |-> IF i = n + 1 THEN hand ELSE Delivered[i]]
  <2> DEFINE T == {Delivered[i] : i \in 1 .. n} \cup {hand}
             whole == [i \in 1 .. n + 1 |-> IF i = n + 1 THEN hand ELSE Delivered[i]]
  <2>1. Delivered \in [1 .. n -> T]
    BY <1>3 DEF Delivered
  <2>2. Delivered \in Seq(T)
    BY <1>1, <2>1
  <2>3. whole \in Seq(T) /\ Len(whole) = n + 1
    <3>1. whole \in [1 .. n + 1 -> T]
      OBVIOUS
    <3> QED
      BY <1>1, <3>1
  <2>4. Append(Delivered, hand) \in Seq(T) /\ Len(Append(Delivered, hand)) = n + 1
    BY <1>3, <2>2
  <2>5. \A i \in 1 .. n + 1 : Append(Delivered, hand)[i] = whole[i]
    BY <1>1, <1>3, <2>2
  <2>6. Append(Delivered, hand) = whole
    <3> HIDE DEF whole, T, n
    <3> QED
      BY <1>1, <2>3, <2>4, <2>5
  <2> QED
    BY <2>6
<1> QED
  BY <1>4, <1>5

LEMMA PipeInit == Init => Pipe!Init
  BY DEF Init, Pipe!Init

LEMMA PipeStep == Carried /\ [Next]_vars => [Pipe!Next]_(Pipe!vars)
<1> SUFFICES ASSUME Carried, [Next]_vars PROVE [Pipe!Next]_(Pipe!vars)
  OBVIOUS
<1> USE PacketsAssumption DEF Carried
<1>1. CASE UNCHANGED forwarderVars
  BY <1>1 DEF forwarderVars, Pipe!vars
<1>2. ASSUME NEW p \in Packets, Arrive(p) PROVE Pipe!Next
  <2>1. Pending' = Append(Pending, p)
    BY <1>2, InFront DEF Arrive, Pending
  <2>2. UNCHANGED <<sent, alive>>
    BY <1>2 DEF Arrive
  <2> QED
    BY <2>1, <2>2 DEF Pending, Pipe!Next, Pipe!Enter
<1>3. CASE Receive
  <2>1. /\ queue # << >> /\ hand = None /\ hand' = Head(queue)
        /\ queue' = Tail(queue) /\ UNCHANGED <<sent, alive>>
    BY <1>3 DEF Receive, Takes
  <2>2. Head(queue) \in Packets /\ <<Head(queue)>> \o Tail(queue) = queue
    BY <2>1
  <2> QED
    BY <2>1, <2>2 DEF Pipe!vars
<1>4. CASE Skip
  BY <1>4 DEF Skip, Takes, Pipe!Next, Pipe!Drop, Pipe!Leave
<1>5. CASE ReceiveFragment
  BY <1>5 DEF ReceiveFragment, Takes, Pipe!Next, Pipe!Break, Pipe!Leave
<1>6. CASE Forward
  <2>1. PICK a : sent' = Append(sent, [packet |-> hand, to |-> a])
    BY <1>6 DEF Forward
  <2>2. hand \in Packets /\ Pending = <<hand>> \o queue /\ Pending' = queue
    BY <1>6 DEF Forward, Release, Pending
  <2>3. Pending # << >> /\ Head(Pending) = hand /\ Pending' = Tail(Pending)
    BY <2>2, InFront
  <2>4. Delivered' = Append(Delivered, Head(Pending))
    BY <2>1, <2>3, DeliveredGrows
  <2>5. alive /\ UNCHANGED alive
    BY <1>6 DEF Forward, Release
  <2> QED
    BY <2>3, <2>4, <2>5 DEF Pending, Delivered, Pipe!Next, Pipe!Deliver, Pipe!Leave
<1>7. CASE SendFails \/ Fail \/ Cancel
  <2>1. hand \in Packets /\ Pending = <<hand>> \o queue /\ Pending' = queue
    BY <1>7 DEF SendFails, Fail, Cancel, Release, Pending
  <2>2. Pending # << >> /\ Pending' = Tail(Pending)
    BY <2>1, InFront
  <2>3. alive /\ UNCHANGED sent /\ (UNCHANGED alive \/ alive' = FALSE)
    BY <1>7 DEF SendFails, Fail, Cancel, Release
  <2> QED
    BY <2>2, <2>3 DEF Pending, Pipe!Next, Pipe!Drop, Pipe!Break, Pipe!Leave
<1>8. CASE Tick
  BY <1>8 DEF Tick, Pipe!vars
<1> QED
  BY <1>1, <1>2, <1>3, <1>4, <1>5, <1>6, <1>7, <1>8, StepCases

\* The forwarder keeps its packets in order and sends none of them twice,
\* though it waits for a name server between taking and sending one.
THEOREM ForwardsInOrder == Spec => IsPipe
  BY CarriedInit, CarriedStep, PipeInit, PipeStep, PTL
     DEF Spec, IsPipe, Pipe!Spec

-----------------------------------------------------------------------------
(* Where a packet is sent.  The stack of the serve loop holds calls of         *)
(* resolve_name_iteratively_async only, each but the last of which waits for   *)
(* the one above it in `return await`.                                         *)

StubFrames == {f \in Frames : f.fn = "stub" /\ f.pc \in {"start", "asked", "pass"}}

StubStacks == {s \in Seq(StubFrames) : \A i \in 1 .. Len(s) - 1 : s[i].pc = "pass"}

\* An entry of a cache, of whatever type its parts are.
IsEntry(e) == \E v, ttl, age : e = [val |-> v, ttl |-> ttl, age |-> age]

\* The names whose addresses serve a packet for n.
Reached(n) == IF ToThePoint THEN Aliases(n) ELSE Names

\* The aliases of the cache come from there.
KnownEntries ==
  /\ \A k \in DOMAIN cache : IsEntry(cache[k])
  /\ \A m \in Names : <<m, "CNAME">> \in DOMAIN cache => GivesAlias(m, Value(<<m, "CNAME">>))

\* The value that is handed down is the address of a live record.
Found ==
  /\ running = ServeTask
  /\ \E m \in Reached(ServerName[hand]) : Live(<<m, "A">>) /\ Value(<<m, "A">>) = ret

RouteInv ==
  /\ KnownEntries
  /\ stack \in [Tasks -> StubStacks]
  /\ query \in [Tasks -> Questions \cup {None}]
  /\ outcome \in [Tasks -> {None, "found", "exception", "cancelled"}]
  /\ stack[ServeTask] # <<>> => hand # None
  /\ query[ServeTask] # None =>
       /\ running = None /\ stack[ServeTask] # <<>> /\ Top(ServeTask).pc = "asked"
       /\ query[ServeTask] = <<StubAddr, Top(ServeTask).name, "A">>
  /\ stack[ServeTask] # <<>> /\ Top(ServeTask).pc # "pass" =>
       Top(ServeTask).name \in Reached(ServerName[hand])
  /\ stack[ServeTask] # <<>> /\ Top(ServeTask).pc = "pass" => Found
  /\ Resolved("found") => Found

-----------------------------------------------------------------------------
(* Aliases *)

LEMMA AliasTyped ==
  ASSUME NEW m, NEW v, GivesAlias(m, v) PROVE v \in Names
<1>1. \A n \in Names : <<StubAddr, n, "A">> \in Questions
  BY ResolverAssumption DEF Questions
<1>2. CASE <<m, "CNAME">> \in DOMAIN Seed /\ Seed[<<m, "CNAME">>].val = v
  BY <1>2, ResolverAssumption DEF Fits
<1>3. CASE \E n \in Names : \E reply \in Replies[<<StubAddr, n, "A">>] : \E i \in DOMAIN reply :
             reply[i].key = <<m, "CNAME">> /\ reply[i].val = v
  <2>1. PICK n \in Names : \E reply \in Replies[<<StubAddr, n, "A">>] : \E i \in DOMAIN reply :
             reply[i].key = <<m, "CNAME">> /\ reply[i].val = v
    BY <1>3
  <2>2. PICK reply \in Replies[<<StubAddr, n, "A">>] :
             \E i \in DOMAIN reply : reply[i].key = <<m, "CNAME">> /\ reply[i].val = v
    BY <2>1
  <2> PICK i \in DOMAIN reply : reply[i].key = <<m, "CNAME">> /\ reply[i].val = v
    BY <2>2
  <2>3. Fits(reply[i].key, reply[i].val)
    BY <1>1, <2>2, ResolverAssumption
  <2> QED
    BY <2>2, <2>3 DEF Fits
<1> QED
  BY <1>2, <1>3 DEF GivesAlias

LEMMA ReachedItself == ASSUME NEW n \in Names PROVE n \in Reached(n)
  BY DEF Reached, Aliases

LEMMA ReachedOn ==
  ASSUME KnownEntries, NEW n, NEW m \in Reached(n), <<m, "CNAME">> \in DOMAIN cache
  PROVE  Value(<<m, "CNAME">>) \in Reached(n)
<1>1. m \in Names
  BY DEF Reached, Aliases
<1>2. Value(<<m, "CNAME">>) \in Names
  BY <1>1, AliasTyped DEF KnownEntries
<1> QED
  BY <1>2 DEF Reached, Aliases

\* What happens to the alias of a name cuts no way to that name.
LEMMA ReachedKeeps ==
  ASSUME NEW n, NEW m \in Reached(n),
         \A x \in Names \ {m} : <<x, "CNAME">> \in DOMAIN cache =>
           <<x, "CNAME">> \in DOMAIN cache' /\ Value(<<x, "CNAME">>)' = Value(<<x, "CNAME">>)
  PROVE  m \in Reached(n)'
<1>1. CASE ~ToThePoint
  BY <1>1 DEF Reached
<1>2. CASE ToThePoint
  <2>1. m \in Names
    BY <1>2 DEF Reached, Aliases
  <2> SUFFICES ASSUME NEW S \in SUBSET Names, n \in S, m \notin S,
                      \A x \in S : <<x, "CNAME">> \in DOMAIN cache' => Value(<<x, "CNAME">>)' \in S
               PROVE  FALSE
    BY <1>2, <2>1 DEF Reached, Aliases
  <2>2. \A x \in S : <<x, "CNAME">> \in DOMAIN cache => Value(<<x, "CNAME">>) \in S
    OBVIOUS
  <2> QED
    BY <1>2, <2>2 DEF Reached, Aliases
<1> QED
  BY <1>1, <1>2

LEMMA Smallest ==
  ASSUME NEW S \in SUBSET Nat, S # {} PROVE \E m \in S : \A j \in S : m <= j
<1> DEFINE R == OpToRel(<, Nat)
<1>1. \E m \in S : \A j \in S : ~ (<<j, m>> \in R)
  <2> HIDE DEF R
  <2>1. IsWellFoundedOn(R, Nat)
    BY NatLessThanWellFounded DEF R
  <2> QED
    BY <2>1, WFMin
<1>2. \A j, m \in Nat : j < m => <<j, m>> \in R
  BY DEF OpToRel
<1> HIDE DEF R
<1>3. PICK m \in S : \A j \in S : ~ (<<j, m>> \in R)
  BY <1>1
<1>4. \A j \in S : ~ (j < m)
  BY <1>2, <1>3
<1> QED
  BY <1>3, <1>4

\* What a reply leaves of the cache and what it adds.
LEMMA StoredEntry ==
  ASSUME NEW reply, DOMAIN reply \in SUBSET Nat, NEW k \in DOMAIN Stored(reply, cache)
  PROVE  \/ \E i \in DOMAIN reply : reply[i].key = k /\ Stored(reply, cache)[k].val = reply[i].val
         \/ /\ k \in DOMAIN cache /\ Stored(reply, cache)[k] = cache[k]
            /\ \A i \in DOMAIN reply : reply[i].key # k
<1> DEFINE at(j) == {i \in DOMAIN reply : reply[i].key = j}
           first(j) == CHOOSE i \in at(j) : \A h \in at(j) : i <= h
           written == {reply[i].key : i \in DOMAIN reply}
           d == [j \in written |-> [val |-> reply[first(j)].val,
                                    ttl |-> reply[first(j)].ttl, age |-> 0]]
<1>1. Stored(reply, cache) = Updated(cache, d)
  BY DEF Stored
<1>2. CASE k \in written
  <2>1. at(k) \in SUBSET Nat /\ at(k) # {}
    BY <1>2
  <2>2. PICK m \in at(k) : \A j \in at(k) : m <= j
    BY <2>1, Smallest
  <2>3. first(k) \in at(k)
    BY <2>2
  <2>4. d[k].val = reply[first(k)].val
    BY <1>2
  <2>5. Updated(cache, d)[k] = d[k]
    <3> HIDE DEF d
    <3>1. k \in DOMAIN d
      BY <1>2 DEF d
    <3> QED
      BY <3>1 DEF Updated
  <2> QED
    BY <1>1, <2>3, <2>4, <2>5
<1>3. CASE k \notin written
  <2>1. k \notin DOMAIN d /\ \A i \in DOMAIN reply : reply[i].key # k
    BY <1>3
  <2> HIDE DEF d
  <2> QED
    BY <1>1, <2>1 DEF Updated
<1> QED
  BY <1>2, <1>3

LEMMA StoredKeys ==
  ASSUME NEW reply PROVE DOMAIN cache \subseteq DOMAIN Stored(reply, cache)
<1> DEFINE at(j) == {i \in DOMAIN reply : reply[i].key = j}
           first(j) == CHOOSE i \in at(j) : \A h \in at(j) : i <= h
           written == {reply[i].key : i \in DOMAIN reply}
           d == [j \in written |-> [val |-> reply[first(j)].val,
                                    ttl |-> reply[first(j)].ttl, age |-> 0]]
<1>1. Stored(reply, cache) = Updated(cache, d)
  BY DEF Stored
<1> HIDE DEF d
<1> QED
  BY <1>1 DEF Updated

LEMMA StoredIsEntry ==
  ASSUME NEW reply, \A k \in DOMAIN cache : IsEntry(cache[k])
  PROVE  \A k \in DOMAIN Stored(reply, cache) : IsEntry(Stored(reply, cache)[k])
<1> DEFINE at(j) == {i \in DOMAIN reply : reply[i].key = j}
           first(j) == CHOOSE i \in at(j) : \A h \in at(j) : i <= h
           written == {reply[i].key : i \in DOMAIN reply}
           d == [j \in written |-> [val |-> reply[first(j)].val,
                                    ttl |-> reply[first(j)].ttl, age |-> 0]]
<1>1. Stored(reply, cache) = Updated(cache, d)
  BY DEF Stored
<1>2. \A j \in DOMAIN d : IsEntry(d[j])
  BY DEF IsEntry
<1> HIDE DEF d
<1> QED
  BY <1>1, <1>2 DEF Updated

\* A reply about m cuts no way to m.
LEMMA ReachedStored ==
  ASSUME KnownEntries, NEW n, NEW m \in Reached(n), m \in Names,
         NEW reply \in Replies[<<StubAddr, m, "A">>], DOMAIN reply \in SUBSET Nat,
         cache' = Stored(reply, cache)
  PROVE  m \in Reached(n)'
<1>1. CASE ~ToThePoint
  BY <1>1 DEF Reached
<1>2. CASE ToThePoint
  <2> SUFFICES ASSUME NEW S \in SUBSET Names, n \in S, m \notin S,
                      \A x \in S : <<x, "CNAME">> \in DOMAIN cache' => Value(<<x, "CNAME">>)' \in S
               PROVE  FALSE
    BY <1>2 DEF Reached, Aliases
  \* The names that can never lead to m, and those of S, are a set that the old
  \* cache does not leave either.
  <2> DEFINE D == {x \in Names : m \notin EverAliases(x)}
             T == S \cup D
  <2>1. m \in EverAliases(m)
    BY DEF EverAliases
  <2>2. ASSUME NEW x \in D, NEW v \in Names, GivesAlias(x, v) PROVE v \in D
    <3> SUFFICES ASSUME m \in EverAliases(v) PROVE m \in EverAliases(x)
      OBVIOUS
    <3> SUFFICES ASSUME NEW R \in SUBSET Names, x \in R,
                        \A a \in R : \A b \in Names : GivesAlias(a, b) => b \in R
                 PROVE  m \in R
      BY DEF EverAliases
    <3>1. v \in R
      BY <2>2
    <3> QED
      BY <3>1 DEF EverAliases
  <2>3. ASSUME NEW x \in T, <<x, "CNAME">> \in DOMAIN cache
        PROVE  Value(<<x, "CNAME">>) \in T
    <3>1. x \in Names /\ GivesAlias(x, Value(<<x, "CNAME">>))
      BY <2>3 DEF KnownEntries
    <3>2. Value(<<x, "CNAME">>) \in Names
      BY <3>1, AliasTyped
    <3>3. CASE x \in D
      BY <3>1, <3>2, <3>3, <2>2
    <3>4. CASE x \notin D
      <4>1. x \in S /\ x # m /\ m \in EverAliases(x)
        BY <3>4
      <4>2. \A i \in DOMAIN reply : reply[i].key # <<x, "CNAME">>
        BY <1>2, <4>1 DEF ToThePoint
      <4>3. <<x, "CNAME">> \in DOMAIN cache' /\ cache'[<<x, "CNAME">>] = cache[<<x, "CNAME">>]
        BY <2>3, <4>2, StoredKeys, StoredEntry
      <4> QED
        BY <4>1, <4>3 DEF Value
    <3> QED
      BY <3>3, <3>4
  <2>4. n \in T /\ m \notin T /\ T \in SUBSET Names
    BY <2>1
  <2> HIDE DEF T
  <2> QED
    BY <1>2, <2>3, <2>4 DEF Reached, Aliases
<1> QED
  BY <1>1, <1>2

-----------------------------------------------------------------------------
(* The calls *)

\* The stack without its innermost frame.
LEMMA InnerStack ==
  ASSUME NEW s \in StubStacks, s # <<>>, NEW d, d = SubSeq(s, 1, Len(s) - 1)
  PROVE  /\ d \in StubStacks /\ (d # <<>> => d[Len(d)].pc = "pass")
         /\ Len(s) \in Nat \ {0} /\ Len(d) = Len(s) - 1 /\ s[Len(s)] \in StubFrames
         /\ \A i \in 1 .. Len(s) - 1 : d[i] = s[i] /\ d[i].pc = "pass"
<1>1. s \in Seq(StubFrames) /\ \A i \in 1 .. Len(s) - 1 : s[i].pc = "pass"
  BY DEF StubStacks
<1>2. Len(s) \in Nat \ {0}
  BY <1>1, LenProperties, EmptySeq
<1>3. s[Len(s)] \in StubFrames
  BY <1>1, <1>2, ElementOfSeq
<1> PICK n \in Nat : n = Len(s) - 1
  BY <1>2, SMT
<1>4. \A i \in 1 .. n : s[i] \in StubFrames
  BY <1>1, <1>2, ElementOfSeq
<1>5. /\ d \in Seq(StubFrames) /\ Len(d) = IF 1 <= n THEN n - 1 + 1 ELSE 0
      /\ \A i \in 1 .. n - 1 + 1 : d[i] = s[1 + i - 1]
  BY <1>4, SubSeqProperties
<1>6. Len(d) = n
  BY <1>5, SMT
<1>7. \A i \in 1 .. n : i \in 1 .. n - 1 + 1 /\ 1 + i - 1 = i
  BY SMT
<1>8. \A i \in 1 .. n : d[i] = s[i]
  <2> TAKE i \in 1 .. n
  <2>1. d[i] = s[1 + i - 1] /\ 1 + i - 1 = i
    BY <1>5, <1>7
  <2> QED
    BY <2>1
<1>9. \A i \in 1 .. n : d[i].pc = "pass"
  BY <1>1, <1>8
<1>10. d # <<>> => n \in 1 .. n
  BY <1>5, <1>6, EmptySeq, SMT
<1>11. \A i \in 1 .. Len(d) - 1 : i \in 1 .. n
  BY <1>6, SMT
<1>12. d \in StubStacks
  BY <1>5, <1>9, <1>11 DEF StubStacks
<1> QED
  BY <1>2, <1>3, <1>6, <1>8, <1>9, <1>10, <1>12

\* The stack with another innermost frame.
LEMMA OtherFrame ==
  ASSUME NEW s \in StubStacks, s # <<>>, NEW f \in StubFrames
  PROVE  \E r \in StubStacks :
           r = SubSeq(s, 1, Len(s) - 1) \o <<f>> /\ r # <<>> /\ r[Len(r)] = f
<1>1. PICK d, r : d = SubSeq(s, 1, Len(s) - 1) /\ r = d \o <<f>>
  OBVIOUS
<1>2. /\ d \in StubStacks /\ Len(d) \in Nat
      /\ \A i \in 1 .. Len(d) : d[i].pc = "pass"
  <2>1. /\ d \in StubStacks /\ Len(s) \in Nat \ {0} /\ Len(d) = Len(s) - 1
        /\ \A i \in 1 .. Len(s) - 1 : d[i].pc = "pass"
    BY <1>1, InnerStack
  <2> QED
    BY <2>1
<1>3. d \in Seq(StubFrames) /\ <<f>> \in Seq(StubFrames) /\ Len(<<f>>) = 1 /\ <<f>>[1] = f
  BY <1>2 DEF StubStacks
<1> PICK n \in Nat : n = Len(d)
  BY <1>2
<1>4. /\ r \in Seq(StubFrames) /\ Len(r) = n + 1
      /\ \A i \in 1 .. n + 1 : r[i] = IF i <= n THEN d[i] ELSE <<f>>[i - n]
  BY <1>1, <1>3, ConcatProperties
<1>5. n + 1 \in 1 .. n + 1 /\ ~(n + 1 <= n) /\ n + 1 - n = 1 /\ n + 1 # 0
  BY SMT
<1>6. r[n + 1] = f
  <2>1. r[n + 1] = <<f>>[n + 1 - n]
    BY ONLY <1>4, <1>5
  <2> QED
    BY ONLY <2>1, <1>3, <1>5
<1>7. \A i \in 1 .. Len(r) - 1 : i \in 1 .. n /\ i \in 1 .. n + 1 /\ i <= n
  BY <1>4, SMT
<1>8. \A i \in 1 .. Len(r) - 1 : r[i].pc = "pass"
  BY <1>2, <1>4, <1>7
<1>9. r # <<>>
  BY <1>4, <1>5, EmptySeq
<1> QED
  BY <1>1, <1>4, <1>6, <1>8, <1>9 DEF StubStacks

\* The stack with one frame more.
LEMMA MoreFrames ==
  ASSUME NEW s \in StubStacks, s # <<>>, s[Len(s)].pc = "pass", NEW f \in StubFrames,
         NEW r, r = Append(s, f)
  PROVE  r \in StubStacks /\ r # <<>> /\ r[Len(r)] = f
<1>1. s \in Seq(StubFrames) /\ \A i \in 1 .. Len(s) - 1 : s[i].pc = "pass"
  BY DEF StubStacks
<1> PICK n \in Nat : n = Len(s)
  BY <1>1, LenProperties
<1>2. /\ r \in Seq(StubFrames) /\ Len(r) = n + 1 /\ r # <<>>
      /\ \A i \in 1 .. n : r[i] = s[i]
      /\ r[n + 1] = f
  BY <1>1, AppendProperties
<1>3. \A i \in 1 .. Len(r) - 1 : i \in 1 .. n /\ (i = n \/ i \in 1 .. Len(s) - 1)
  BY <1>2, SMT
<1>4. \A i \in 1 .. Len(r) - 1 : r[i].pc = "pass"
  BY <1>1, <1>2, <1>3
<1> QED
  BY <1>2, <1>4 DEF StubStacks

\* The frames of the serve loop are all of one coroutine.
LEMMA TopStub ==
  ASSUME RouteInv, stack[ServeTask] # <<>>
  PROVE  /\ stack[ServeTask] \in StubStacks /\ Top(ServeTask) \in StubFrames
         /\ Top(ServeTask).fn = "stub" /\ Top(ServeTask).name \in Names
<1>1. stack[ServeTask] \in StubStacks
  BY ServeAssumption DEF RouteInv
<1>2. Top(ServeTask) \in StubFrames
  BY <1>1, InnerStack DEF Top
<1> QED
  BY <1>1, <1>2 DEF StubFrames, Frames

\* The state of the resolver after a step of the serve loop in it.
LEMMA NewFrame ==
  ASSUME RouteInv, NEW r \in StubStacks, stack' = [stack EXCEPT ![ServeTask] = r]
  PROVE  stack' \in [Tasks -> StubStacks] /\ stack'[ServeTask] = r
  BY ServeAssumption DEF RouteInv

\* The innermost frame goes on at pc.
LEMMA TopAt ==
  ASSUME RouteInv, stack[ServeTask] # <<>>, NEW pc \in {"asked", "pass"}
  PROVE  \E f \in StubFrames : \E s \in StubStacks :
           /\ f.pc = pc /\ f.name = Top(ServeTask).name
           /\ s = At(ServeTask, pc) /\ s # <<>> /\ s[Len(s)] = f
<1>1. stack[ServeTask] \in StubStacks /\ Top(ServeTask) \in StubFrames
  BY TopStub
<1>2. PICK f : f = [Top(ServeTask) EXCEPT !.pc = pc]
  OBVIOUS
<1>3. f \in StubFrames /\ f.pc = pc /\ f.name = Top(ServeTask).name
  BY <1>1, <1>2 DEF StubFrames, Frames
<1>4. PICK s \in StubStacks :
        /\ s = SubSeq(stack[ServeTask], 1, Len(stack[ServeTask]) - 1) \o <<f>>
        /\ s # <<>> /\ s[Len(s)] = f
  BY <1>1, <1>3, OtherFrame
<1>5. s = At(ServeTask, pc)
  BY <1>2, <1>4 DEF At, Below
<1> QED
  BY ONLY <1>3, <1>4, <1>5

LEMMA RunsNotWaits == ASSUME RouteInv, Running(ServeTask) PROVE query[ServeTask] = None
  BY ServeAssumption, ResolverAssumption DEF RouteInv, Running

\* A step that raises.
LEMMA RaiseRoute ==
  ASSUME RouteInv, Running(ServeTask), Raise(ServeTask), KnownEntries', UNCHANGED hand
  PROVE  RouteInv'
<1>1. /\ stack' = [stack EXCEPT ![ServeTask] = <<>>]
      /\ outcome' = [outcome EXCEPT ![ServeTask] = "exception"]
      /\ UNCHANGED <<query, running, ret>>
  BY DEF Raise
<1>2. <<>> \in StubStacks
  BY SMT DEF StubStacks
<1>3. stack' \in [Tasks -> StubStacks] /\ stack'[ServeTask] = <<>>
  BY <1>1, <1>2, NewFrame
<1>4. outcome' \in [Tasks -> {None, "found", "exception", "cancelled"}]
      /\ outcome'[ServeTask] = "exception"
  BY <1>1, ServeAssumption DEF RouteInv
<1>5. query[ServeTask] = None
  BY RunsNotWaits
<1> QED
  BY <1>1, <1>3, <1>4, <1>5 DEF RouteInv, Resolved

\* A step that returns the address of a live record.
LEMMA ReturnRoute ==
  ASSUME RouteInv, Running(ServeTask), NEW v, Return(ServeTask, v), UNCHANGED <<cache, hand>>,
         \E m \in Reached(ServerName[hand]) : Live(<<m, "A">>) /\ Value(<<m, "A">>) = v
  PROVE  RouteInv'
<1>1. PICK d : /\ d = SubSeq(stack[ServeTask], 1, Len(stack[ServeTask]) - 1)
               /\ stack' = [stack EXCEPT ![ServeTask] = d]
               /\ ret' = v /\ UNCHANGED <<query, running>>
  BY DEF Return, Below
<1>2. stack[ServeTask] # <<>> /\ stack[ServeTask] \in StubStacks
  BY TopStub DEF Running
<1>3. d \in StubStacks /\ (d # <<>> => d[Len(d)].pc = "pass")
  BY <1>1, <1>2, InnerStack
<1>4. stack' \in [Tasks -> StubStacks] /\ stack'[ServeTask] = d
  BY <1>1, <1>3, NewFrame
<1>5. outcome' \in [Tasks -> {None, "found", "exception", "cancelled"}]
  BY DEF RouteInv, Return
<1>6. query'[ServeTask] = None /\ query' \in [Tasks -> Questions \cup {None}]
  BY <1>1, RunsNotWaits DEF RouteInv
<1>7. Found'
  <2>1. PICK m \in Reached(ServerName[hand]) : Live(<<m, "A">>) /\ Value(<<m, "A">>) = v
    OBVIOUS
  <2>2. m \in Reached(ServerName[hand])'
    BY ReachedKeeps DEF Value
  <2> QED
    BY <1>1, <2>1, <2>2 DEF Found, Running, Live, Valid, Value
<1>8. KnownEntries' /\ hand # None
  BY <1>2 DEF RouteInv, KnownEntries, Value
<1>9. stack'[ServeTask] # <<>> => Top(ServeTask)'.pc = "pass"
  BY <1>3, <1>4 DEF Top
<1> QED
  BY <1>4, <1>5, <1>6, <1>7, <1>8, <1>9 DEF RouteInv

LEMMA HitAddressRoute == ASSUME RouteInv, HitAddress(ServeTask), UNCHANGED hand PROVE RouteInv'
<1>1. /\ Running(ServeTask) /\ Reads(Top(ServeTask)) /\ Live(<<Top(ServeTask).name, "A">>)
      /\ Return(ServeTask, Value(<<Top(ServeTask).name, "A">>)) /\ UNCHANGED cache
  BY DEF HitAddress
<1>2. Top(ServeTask).name \in Reached(ServerName[hand])
  BY <1>1 DEF RouteInv, Reads, Running
<1> QED
  BY <1>1, <1>2, ReturnRoute

LEMMA PassRoute == ASSUME RouteInv, Pass(ServeTask), UNCHANGED hand PROVE RouteInv'
<1>1. /\ Running(ServeTask) /\ Top(ServeTask).pc = "pass"
      /\ Return(ServeTask, ret) /\ UNCHANGED cache
  BY DEF Pass
<1>2. Found
  BY <1>1 DEF RouteInv, Running
<1> QED
  BY <1>1, <1>2, ReturnRoute DEF Found

\* Lookups lose entries and change none.
LEMMA LookedUpRoute ==
  ASSUME RouteInv, NEW K, cache' = LookedUp(K)
  PROVE  /\ KnownEntries'
         /\ \A x \in Names : <<x, "CNAME">> \in DOMAIN cache /\ <<x, "CNAME">> \notin K =>
              <<x, "CNAME">> \in DOMAIN cache' /\ Value(<<x, "CNAME">>)' = Value(<<x, "CNAME">>)
  BY DEF LookedUp, RouteInv, KnownEntries, Value

LEMMA HitAliasRoute == ASSUME RouteInv, HitAlias(ServeTask), UNCHANGED hand PROVE RouteInv'
<1>1. PICK f, g, m :
        /\ f = Top(ServeTask) /\ m = f.name
        /\ g = [f EXCEPT !.name = Value(<<m, "CNAME">>), !.fresh = FALSE, !.pc = "start"]
        /\ Running(ServeTask) /\ Reads(f) /\ Live(<<m, "CNAME">>)
        /\ cache' = LookedUp({<<m, "A">>}) /\ Call(ServeTask, g, "pass")
  BY DEF HitAlias
<1>2. /\ stack[ServeTask] # <<>> /\ stack[ServeTask] \in StubStacks
      /\ f \in StubFrames /\ m \in Names
  BY <1>1, TopStub DEF Running
<1>3. KnownEntries' /\ KnownEntries
  BY <1>1, LookedUpRoute DEF RouteInv
<1>4. m \in Reached(ServerName[hand]) /\ <<m, "CNAME">> \in DOMAIN cache
  BY <1>1, <1>2 DEF RouteInv, Reads, Live
<1>5. PICK v : v = Value(<<m, "CNAME">>) /\ v \in Reached(ServerName[hand])
  BY <1>3, <1>4, ReachedOn
<1>6. v \in Reached(ServerName[hand])'
  <2>1. \A x \in Names : <<x, "CNAME">> \notin {<<m, "A">>}
    OBVIOUS
  <2> QED
    BY <1>1, <1>5, <2>1, LookedUpRoute, ReachedKeeps
<1>7. v \in Names
  BY <1>5 DEF Reached, Aliases
<1>8. g \in StubFrames /\ g.name = v /\ g.pc = "start"
  BY <1>1, <1>2, <1>5, <1>7 DEF StubFrames, Frames
<1>9. CASE Raise(ServeTask)
  BY <1>1, <1>3, <1>9, RaiseRoute
<1>10. CASE /\ stack' = [stack EXCEPT ![ServeTask] = Append(At(ServeTask, "pass"), g)]
            /\ UNCHANGED <<query, running, ret, outcome>>
  <2>1. PICK h \in StubFrames, s \in StubStacks :
          h.pc = "pass" /\ s = At(ServeTask, "pass") /\ s # <<>> /\ s[Len(s)] = h
    BY <1>2, TopAt
  <2>2. PICK r : r = Append(s, g)
    OBVIOUS
  <2>4. r \in StubStacks /\ r # <<>> /\ r[Len(r)] = g
    <3>1. s[Len(s)].pc = "pass"
      BY <2>1
    <3> QED
      BY ONLY <1>8, <2>1, <2>2, <3>1, MoreFrames
  <2>5. stack' \in [Tasks -> StubStacks] /\ stack'[ServeTask] = r
    BY <1>10, <2>1, <2>2, <2>4, NewFrame
  <2>6. Top(ServeTask)' = g
    BY <2>4, <2>5 DEF Top
  <2>7. query[ServeTask] = None
    BY <1>1, RunsNotWaits
  <2>8. hand # None
    BY <1>2 DEF RouteInv
  <2> QED
    BY <1>3, <1>6, <1>8, <1>10, <2>4, <2>5, <2>6, <2>7, <2>8 DEF RouteInv, Resolved
<1> QED
  BY <1>1, <1>9, <1>10 DEF Call

LEMMA MissStubRoute == ASSUME RouteInv, MissStub(ServeTask), UNCHANGED hand PROVE RouteInv'
<1>1. PICK f, m :
        /\ f = Top(ServeTask) /\ m = f.name /\ Running(ServeTask) /\ f.pc = "start"
        /\ cache' = LookedUp(MissedKeys(f)) /\ Ask(ServeTask, <<StubAddr, m, "A">>)
  BY DEF MissStub, Misses
<1>2. /\ stack[ServeTask] # <<>> /\ stack[ServeTask] \in StubStacks
      /\ f \in StubFrames /\ m \in Names
  BY <1>1, TopStub DEF Running
<1>3. KnownEntries'
  BY <1>1, LookedUpRoute
<1>4. m \in Reached(ServerName[hand])
  BY <1>1, <1>2 DEF RouteInv
<1>5. m \in Reached(ServerName[hand])'
  <2>1. \A x \in Names \ {m} : <<x, "CNAME">> \notin MissedKeys(f)
    BY <1>1 DEF MissedKeys
  <2> QED
    BY <1>1, <1>4, <2>1, LookedUpRoute, ReachedKeeps
<1>6. PICK g \in StubFrames, r \in StubStacks :
        /\ g.pc = "asked" /\ g.name = m
        /\ r = At(ServeTask, "asked") /\ r # <<>> /\ r[Len(r)] = g
  BY <1>1, <1>2, TopAt
<1>7. /\ stack' = [stack EXCEPT ![ServeTask] = r]
      /\ query' = [query EXCEPT ![ServeTask] = <<StubAddr, m, "A">>]
      /\ running' = None /\ UNCHANGED outcome
  BY <1>1, <1>6 DEF Ask
<1>9. stack' \in [Tasks -> StubStacks] /\ stack'[ServeTask] = r
  BY <1>7, NewFrame
<1>10. Top(ServeTask)' = g
  BY <1>6, <1>9 DEF Top
<1>11. /\ query' \in [Tasks -> Questions \cup {None}]
       /\ query'[ServeTask] = <<StubAddr, m, "A">>
  BY <1>2, <1>7, ServeAssumption, ResolverAssumption DEF RouteInv, Questions
<1>12. hand # None
  BY <1>2 DEF RouteInv
<1> QED
  BY <1>3, <1>5, <1>6, <1>7, <1>9, <1>10, <1>11, <1>12 DEF RouteInv, Resolved

LEMMA NotFoundRoute == ASSUME RouteInv, NotFound(ServeTask), UNCHANGED hand PROVE RouteInv'
<1>1. Running(ServeTask) /\ Raise(ServeTask) /\ KnownEntries'
  BY LookedUpRoute DEF NotFound
<1> QED
  BY <1>1, RaiseRoute

LEMMA AnsweredRoute == ASSUME RouteInv, Answered(ServeTask), UNCHANGED hand PROVE RouteInv'
<1>1. PICK m : /\ m = Top(ServeTask).name /\ query[ServeTask] = <<StubAddr, m, "A">>
               /\ stack[ServeTask] # <<>> /\ Top(ServeTask).pc = "asked" /\ hand # None
               /\ m \in Reached(ServerName[hand])
  BY DEF Answered, RouteInv
<1>2. m \in Names
  BY <1>1, TopStub
<1>3. PICK reply \in Replies[<<StubAddr, m, "A">>] : cache' = Stored(reply, cache)
  BY <1>1 DEF Answered
<1>4. DOMAIN reply \in SUBSET Nat
  <2>1. <<StubAddr, m, "A">> \in Questions
    BY <1>2, ResolverAssumption DEF Questions
  <2>2. reply \in Seq([key : Keys, val : Addrs \cup Names, ttl : Nat])
    BY <2>1, ResolverAssumption
  <2> QED
    BY <2>2, LenProperties
<1>5. m \in Reached(ServerName[hand])'
  BY <1>1, <1>2, <1>3, <1>4, ReachedStored DEF RouteInv
<1>6. KnownEntries'
  <2> SUFFICES ASSUME NEW x \in Names, <<x, "CNAME">> \in DOMAIN cache'
               PROVE  GivesAlias(x, Value(<<x, "CNAME">>)')
    BY <1>3, StoredIsEntry DEF RouteInv, KnownEntries
  <2>1. CASE \E i \in DOMAIN reply : /\ reply[i].key = <<x, "CNAME">>
                                     /\ cache'[<<x, "CNAME">>].val = reply[i].val
    BY <1>2, <1>3, <2>1 DEF GivesAlias, Value
  <2>2. CASE /\ <<x, "CNAME">> \in DOMAIN cache
             /\ cache'[<<x, "CNAME">>] = cache[<<x, "CNAME">>]
    BY <2>2 DEF RouteInv, KnownEntries, Value
  <2> QED
    BY <1>3, <1>4, <2>1, <2>2, StoredEntry
<1>7. /\ query' = [query EXCEPT ![ServeTask] = None] /\ running' = ServeTask
      /\ UNCHANGED <<stack, outcome>>
  BY DEF Answered
<1>8. query' \in [Tasks -> Questions \cup {None}] /\ query'[ServeTask] = None
  BY <1>7, ServeAssumption DEF RouteInv
<1> QED
  BY <1>1, <1>5, <1>6, <1>7, <1>8 DEF RouteInv, Resolved, Top

LEMMA UnansweredRoute == ASSUME RouteInv, Unanswered(ServeTask), UNCHANGED hand PROVE RouteInv'
<1>1. PICK e \in Failures :
        /\ outcome' = [outcome EXCEPT ![ServeTask] = e]
        /\ query' = [query EXCEPT ![ServeTask] = None]
        /\ stack' = [stack EXCEPT ![ServeTask] = <<>>]
        /\ running' = ServeTask /\ UNCHANGED cache
  BY DEF Unanswered
<1>2. <<>> \in StubStacks
  BY SMT DEF StubStacks
<1>3. stack' \in [Tasks -> StubStacks] /\ stack'[ServeTask] = <<>>
  BY <1>1, <1>2, NewFrame
<1>4. e \in {"exception", "cancelled"}
  BY ResolverAssumption
<1>5. outcome' \in [Tasks -> {None, "found", "exception", "cancelled"}] /\ outcome'[ServeTask] # "found"
  BY <1>1, <1>4, ServeAssumption DEF RouteInv
<1>6. query' \in [Tasks -> Questions \cup {None}] /\ query'[ServeTask] = None
  BY <1>1, ServeAssumption DEF RouteInv
<1>7. KnownEntries'
  BY <1>1 DEF RouteInv, KnownEntries, Value
<1> QED
  BY <1>3, <1>5, <1>6, <1>7 DEF RouteInv, Resolved

-----------------------------------------------------------------------------
(* The loop *)

LEMMA RouteInit == Init => RouteInv
<1> SUFFICES ASSUME Init PROVE RouteInv
  OBVIOUS
<1>1. /\ cache = Seed /\ stack = [t \in Tasks |-> <<>>] /\ query = [t \in Tasks |-> None]
      /\ running = None /\ outcome = [t \in Tasks |-> None]
  BY DEF Init, ResolverInit
<1>2. <<>> \in StubStacks
  BY SMT DEF StubStacks
<1>3. stack \in [Tasks -> StubStacks] /\ stack[ServeTask] = <<>> /\ query[ServeTask] = None
  BY <1>1, <1>2, ServeAssumption
<1>4. running # ServeTask
  BY <1>1, ServeAssumption, ResolverAssumption
<1>5. KnownEntries
  <2>1. \A k \in DOMAIN Seed : IsEntry(Seed[k])
    BY ResolverAssumption DEF Entries, IsEntry
  <2> QED
    BY <1>1, <2>1 DEF KnownEntries, GivesAlias, Value
<1> QED
  BY <1>1, <1>3, <1>4, <1>5 DEF RouteInv, Resolved

LEMMA ReleaseRoute == ASSUME RouteInv, Release, stack[ServeTask] = <<>> PROVE RouteInv'
<1>1. /\ running' = None /\ outcome' = [outcome EXCEPT ![ServeTask] = None]
      /\ UNCHANGED <<cache, stack, query>>
  BY DEF Release
<1>2. running' # ServeTask
  BY <1>1, ServeAssumption, ResolverAssumption
<1>3. outcome' \in [Tasks -> {None, "found", "exception", "cancelled"}]
  BY <1>1 DEF RouteInv
<1>4. KnownEntries'
  BY <1>1 DEF RouteInv, KnownEntries, Value
<1> QED
  BY <1>1, <1>2, <1>3, <1>4 DEF RouteInv, Resolved

LEMMA ReceiveRoute == ASSUME RouteInv, Carried, Receive PROVE RouteInv'
<1>1. PICK n, f : /\ n = ServerName[Head(queue)] /\ f = StubFrame(n)
                  /\ stack' = [stack EXCEPT ![ServeTask] = <<f>>]
                  /\ hand' = Head(queue) /\ hand = None /\ queue # <<>>
                  /\ running' = ServeTask /\ UNCHANGED <<cache, query, outcome>>
  BY DEF Receive, Takes
<1>2. hand' \in Packets /\ hand' # None
  BY <1>1, PacketsAssumption DEF Carried
<1>3. n \in Names /\ ServerName[hand'] = n
  BY <1>1, <1>2, ServerNameAssumption
<1>4. f \in StubFrames /\ f.name = n /\ f.pc = "start"
  BY <1>1, <1>3 DEF StubFrames, Frames, StubFrame
<1>5. <<f>> \in StubStacks /\ Len(<<f>>) = 1 /\ <<f>>[1] = f /\ <<f>> # <<>>
  BY <1>4, SMT DEF StubStacks
<1>6. stack' \in [Tasks -> StubStacks] /\ stack'[ServeTask] = <<f>>
  BY <1>1, <1>5, NewFrame
<1>7. Top(ServeTask)' = f
  BY <1>5, <1>6 DEF Top
<1>8. query[ServeTask] = None
  BY <1>1 DEF RouteInv
<1>9. n \in Reached(n)'
  BY <1>3, ReachedItself, ReachedKeeps, <1>1 DEF Value
<1>10. KnownEntries'
  BY <1>1 DEF RouteInv, KnownEntries, Value
<1> QED
  BY <1>1, <1>2, <1>3, <1>4, <1>5, <1>6, <1>7, <1>8, <1>9, <1>10 DEF RouteInv, Resolved

LEMMA AgedEntry ==
  ASSUME NEW c, NEW k \in DOMAIN c, IsEntry(c[k])
  PROVE  IsEntry(Aged(c)[k]) /\ Aged(c)[k].val = c[k].val /\ DOMAIN Aged(c) = DOMAIN c
<1>1. PICK v, ttl, age : c[k] = [val |-> v, ttl |-> ttl, age |-> age]
  BY DEF IsEntry
<1>2. PICK a : Aged(c)[k] = [c[k] EXCEPT !.age = a]
  BY DEF Aged
<1>3. Aged(c)[k] = [val |-> v, ttl |-> ttl, age |-> a]
  BY <1>1, <1>2
<1> QED
  BY <1>1, <1>3 DEF IsEntry, Aged

\* Steps that leave the resolver and the packet in hand alone, time aside.
LEMMA IdleRoute ==
  ASSUME RouteInv, UNCHANGED <<stack, query, running, ret, outcome, hand>>,
         UNCHANGED cache \/ (running = None /\ cache' = Aged(cache))
  PROVE  RouteInv'
<1>1. /\ DOMAIN cache' = DOMAIN cache
      /\ \A m \in Names : <<m, "CNAME">> \in DOMAIN cache => Value(<<m, "CNAME">>)' = Value(<<m, "CNAME">>)
  <2>1. CASE UNCHANGED cache
    BY <2>1 DEF Value
  <2>2. CASE cache' = Aged(cache)
    <3>1. DOMAIN cache' = DOMAIN cache
      BY <2>2 DEF Aged
    <3>2. \A k \in DOMAIN cache : cache'[k].val = cache[k].val
      BY <2>2, AgedEntry DEF RouteInv, KnownEntries
    <3> QED
      BY <3>1, <3>2 DEF Value
  <2> QED
    BY <2>1, <2>2
<1>2. KnownEntries'
  <2>1. CASE UNCHANGED cache
    BY <2>1 DEF RouteInv, KnownEntries, Value
  <2>2. CASE cache' = Aged(cache)
    BY <1>1, <2>2, AgedEntry DEF RouteInv, KnownEntries
  <2> QED
    BY <2>1, <2>2
<1>3. \A n : \A m \in Reached(n) : m \in Reached(n)'
  <2> TAKE n
  <2> TAKE m \in Reached(n)
  <2> QED
    BY <1>1, ReachedKeeps
<1>4. Found => Found'
  <2> SUFFICES ASSUME Found PROVE Found'
    OBVIOUS
  <2>1. PICK m \in Reached(ServerName[hand]) : Live(<<m, "A">>) /\ Value(<<m, "A">>) = ret
    BY DEF Found
  <2>2. running = ServeTask /\ UNCHANGED cache
    BY ServeAssumption, ResolverAssumption DEF Found
  <2> QED
    BY <1>3, <2>1, <2>2 DEF Found, Live, Valid, Value
<1> QED
  BY <1>2, <1>3, <1>4 DEF RouteInv, Resolved, Top

LEMMA RouteStep == Carried /\ RouteInv /\ [Next]_vars => RouteInv'
<1> SUFFICES ASSUME Carried, RouteInv, [Next]_vars PROVE RouteInv'
  OBVIOUS
<1>1. CASE Resolve(ServeTask)
  BY <1>1, HitAddressRoute, HitAliasRoute, MissStubRoute, NotFoundRoute, PassRoute,
     AnsweredRoute, UnansweredRoute DEF Resolve, forwarderVars
<1>2. CASE Receive
  BY <1>2, ReceiveRoute
<1>3. CASE Skip \/ ReceiveFragment
  BY <1>3, IdleRoute DEF Skip, ReceiveFragment, resolverVars
<1>4. CASE Forward \/ SendFails \/ Fail \/ Cancel
  BY <1>4, ReleaseRoute DEF Forward, SendFails, Fail, Cancel, Resolved
<1>5. CASE Tick
  BY <1>5, IdleRoute DEF Tick
<1>6. CASE (\E p \in Packets : Arrive(p)) \/ UNCHANGED vars
  BY <1>6, IdleRoute DEF Arrive, vars, resolverVars, forwarderVars
<1> QED
  BY <1>1, <1>2, <1>3, <1>4, <1>5, <1>6 DEF Next, Serve, Ended

\* The address of the packet that a step sends.
LEMMA SentTo ==
  ASSUME Carried, RouteInv, [Next]_vars, sent' # sent, ~benchmark
  PROVE  /\ sent'[Len(sent')].to = ret
         /\ \E m \in Reached(ServerName[hand]) : Live(<<m, "A">>) /\ Value(<<m, "A">>) = ret
<1>1. Forward
  BY StepCases DEF forwarderVars, Arrive, Receive, Skip, ReceiveFragment, Takes, SendFails,
     Fail, Cancel, Tick
<1>2. Resolved("found") /\ sent' = Append(sent, [packet |-> hand, to |-> ret])
  BY <1>1 DEF Forward
<1>3. PICK e : e = [packet |-> hand, to |-> ret] /\ sent' = Append(sent, e)
  BY <1>2
<1>4. Len(sent') = Len(sent) + 1 /\ sent'[Len(sent) + 1] = e
  BY ONLY <1>3, Carried DEF Carried
<1>5. Found
  BY <1>2 DEF RouteInv
<1> QED
  BY <1>3, <1>4, <1>5 DEF Found

\* Whatever the name servers answer, a packet leaves for an address that an A
\* record gives that has not expired: nothing comes between the last lookup and
\* the sending.
THEOREM RouteUnexpired ==
  Spec => [][ sent' # sent /\ ~benchmark =>
                \E m \in Names : Live(<<m, "A">>) /\ Value(<<m, "A">>) = sent'[Len(sent')].to ]_vars
<1>1. Carried /\ RouteInv /\ [Next]_vars =>
        [ sent' # sent /\ ~benchmark =>
            \E m \in Names : Live(<<m, "A">>) /\ Value(<<m, "A">>) = sent'[Len(sent')].to ]_vars
  BY SentTo DEF Reached, Aliases
<1> QED
  BY <1>1, CarriedInit, CarriedStep, RouteInit, RouteStep, PTL DEF Spec

\* And that is a record of the packet's own server, or of a name that the cache
\* gives as its alias when the packet leaves, though aliases expire and are
\* replaced during the wait; provided that no reply about one name changes the
\* aliases on the way to it.
THEOREM RouteValid == ToThePoint => (Spec => RouteIsValid)
<1> SUFFICES ASSUME ToThePoint PROVE Spec => RouteIsValid
  OBVIOUS
<1> DEFINE valid == sent' # sent /\ ~benchmark =>
             \E m \in Aliases(ServerName[hand]) :
               LET k == <<m, "A">>
               IN  /\ k \in DOMAIN cache /\ cache[k].val = sent'[Len(sent')].to
                   /\ cache[k].age <= Larger(cache[k].ttl, Floor)
<1>1. Carried /\ RouteInv /\ [Next]_vars => valid
  BY SentTo DEF Reached, Live, Valid, Value
<1>2. Carried /\ RouteInv /\ [Next]_vars => [valid]_vars
  BY <1>1
<1> QED
  BY <1>2, CarriedInit, CarriedStep, RouteInit, RouteStep, PTL DEF Spec, RouteIsValid

-----------------------------------------------------------------------------
(* The checksum of the rewritten IP header, for words of any size and headers of *)
(* any length *)

\* A carry is taken off and added back in.
LEMMA FoldedValue ==
  ASSUME NEW s \in 0 .. 2 * Base - 2
  PROVE  Folded(s) = IF s >= Base THEN s - (Base - 1) ELSE s
<1>1. CASE s < Base
  BY <1>1, BaseAssumption DEF Folded
<1>2. CASE s >= Base
  <2>1. s % Base = s - Base
    <3> DEFINE q == s \div Base
               r == s % Base
    <3>1. s = Base * q + r /\ r \in 0 .. Base - 1 /\ q \in Int
      BY BaseAssumption, SMT
    <3>2. q = 1
      BY <3>1, <1>2, BaseAssumption, SMT
    <3> QED
      BY <3>1, <3>2, BaseAssumption
  <2> QED
    BY <2>1, <1>2, BaseAssumption DEF Folded
<1> QED
  BY <1>1, <1>2, BaseAssumption

ChecksumInv == ChecksumTypeOK /\ SumIsExact /\ (pos = Words + 2 => header[Field] = Base - 1 - sum)

LEMMA ChecksumInvInit == ChecksumInit => ChecksumInv
<1> SUFFICES ASSUME ChecksumInit PROVE ChecksumInv
  OBVIOUS
<1>1. ChecksumTypeOK
  BY BaseAssumption, WordsAssumption DEF ChecksumInit, ChecksumTypeOK, Word
<1>2. 0 = 0 + 0 * (Base - 1)
  BY BaseAssumption
<1> QED
  BY <1>1, <1>2, WordsAssumption DEF ChecksumInit, ChecksumInv, SumIsExact, ChecksumTypeOK

LEMMA ChecksumInvStep == ChecksumInv /\ [ChecksumNext]_checksumVars => ChecksumInv'
<1> SUFFICES ASSUME ChecksumInv, [ChecksumNext]_checksumVars PROVE ChecksumInv'
  OBVIOUS
<1> USE BaseAssumption, WordsAssumption DEF ChecksumInv, ChecksumTypeOK, Word
<1>1. CASE AddWord
  <2> DEFINE w == header[pos]
  <2>1. w \in Word /\ pos \in 1 .. Words
    BY <1>1 DEF AddWord
  <2>2. sum + w \in 0 .. 2 * Base - 2
    BY <2>1
  <2>3. sum' = IF sum + w >= Base THEN sum + w - (Base - 1) ELSE sum + w
    BY <1>1, <2>2, FoldedValue DEF AddWord
  <2>4. total' = total + w /\ pos' = pos + 1 /\ header' = header
    BY <1>1 DEF AddWord
  <2>5. carries' = IF sum + w >= Base THEN carries + 1 ELSE carries
    BY <1>1 DEF AddWord
  <2>6. ChecksumTypeOK'
    <3>1. sum' \in Word
      BY <2>1, <2>2, <2>3
    <3>2. total' \in Nat /\ carries' \in Nat
      BY <2>1, <2>4, <2>5
    <3> QED
      BY <2>1, <2>4, <3>1, <3>2
  <2>7. total = sum + carries * (Base - 1)
    BY DEF SumIsExact
  <2>8. total' = sum' + carries' * (Base - 1)
    <3>1. CASE sum + w >= Base
      <4>1. (carries + 1) * (Base - 1) = carries * (Base - 1) + (Base - 1)
        BY SMT
      <4> QED
        BY <2>1, <2>3, <2>4, <2>5, <2>7, <3>1, <4>1
    <3>2. CASE ~(sum + w >= Base)
      BY <2>1, <2>3, <2>4, <2>5, <2>7, <3>2
    <3> QED
      BY <3>1, <3>2
  <2>9. total' > 0 => sum' > 0
    <3>1. CASE sum + w >= Base
      BY <2>1, <2>3, <3>1
    <3>2. CASE w > 0
      BY <2>1, <2>3, <3>2
    <3>3. CASE w = 0
      BY <2>1, <2>3, <2>4, <3>3 DEF SumIsExact
    <3> QED
      BY <2>1, <3>2, <3>3
  <2>10. SumIsExact'
    BY ONLY <2>6, <2>8, <2>9 DEF SumIsExact, ChecksumTypeOK
  <2>11. pos' # Words + 2
    BY <2>1, <2>4
  <2> QED
    BY ONLY <2>6, <2>10, <2>11 DEF ChecksumInv
<1>2. CASE Store
  BY <1>2 DEF Store, SumIsExact
<1>3. CASE UNCHANGED checksumVars
  BY <1>3 DEF checksumVars, SumIsExact
<1> QED
  BY <1>1, <1>2, <1>3 DEF ChecksumNext, ChecksumDone

\* The sum and the stored checksum fit a word.
THEOREM ChecksumTypeCorrect == ChecksumSpec => []ChecksumTypeOK
<1>1. ChecksumInv => ChecksumTypeOK
  BY DEF ChecksumInv
<1> QED
  BY <1>1, ChecksumInvInit, ChecksumInvStep, PTL DEF ChecksumSpec

\* The loop computes the sum modulo Base - 1.
THEOREM SumCorrect == ChecksumSpec => []SumIsExact
<1>1. ChecksumInv => SumIsExact
  BY DEF ChecksumInv
<1> QED
  BY <1>1, ChecksumInvInit, ChecksumInvStep, PTL DEF ChecksumSpec

LEMMA CompletesField == ChecksumInv => FieldCompletes
<1> SUFFICES ASSUME ChecksumInv, pos = Words + 2
             PROVE  /\ header[Field] \in Word
                    /\ total + header[Field] = (carries + 1) * (Base - 1)
  BY DEF FieldCompletes
<1> USE BaseAssumption, WordsAssumption DEF ChecksumInv, ChecksumTypeOK, Word
<1>1. header[Field] = Base - 1 - sum
  OBVIOUS
<1>2. total = sum + carries * (Base - 1)
  BY DEF SumIsExact
<1>3. (carries + 1) * (Base - 1) = carries * (Base - 1) + (Base - 1)
  BY SMT
<1>4. carries * (Base - 1) \in Int
  BY SMT
<1> QED
  BY <1>1, <1>2, <1>3, <1>4

\* The stored checksum completes the header's sum to a multiple of Base - 1.
THEOREM ChecksumCompletes == ChecksumSpec => []FieldCompletes
  BY CompletesField, ChecksumInvInit, ChecksumInvStep, PTL DEF ChecksumSpec

-----------------------------------------------------------------------------
(* What a receiver computes.  TotalOf is recursive; what it computes is shown  *)
(* by the smallest length at which it would be wrong. *)

\* f holds the sums of the first 0, 1, ..., n words of h.
AreTotals(h, n, f) ==
  f = [m \in 0 .. n |-> IF m = 0 THEN 0 ELSE f[m - 1] + h[m]]

LEMMA TotalsAgree ==
  ASSUME NEW h, NEW n \in Nat, NEW k \in 0 .. n, NEW f, NEW g,
         AreTotals(h, n, f), AreTotals(h, k, g)
  PROVE  \A m \in 0 .. k : f[m] = g[m]
<1> DEFINE bad == {m \in 0 .. k : f[m] # g[m]}
<1> SUFFICES ASSUME bad # {} PROVE FALSE
  OBVIOUS
<1>1. PICK m \in bad : \A j \in bad : m <= j
  <2>1. bad \in SUBSET Nat
    OBVIOUS
  <2> HIDE DEF bad
  <2> QED
    BY <2>1, Smallest
<1>2. f[0] = 0 /\ g[0] = 0
  BY DEF AreTotals
<1>3. m \in 1 .. k /\ m - 1 \in 0 .. k /\ m - 1 \notin bad
  BY <1>1, <1>2
<1>4. f[m] = f[m - 1] + h[m] /\ g[m] = g[m - 1] + h[m]
  BY <1>3 DEF AreTotals
<1> QED
  BY <1>1, <1>3, <1>4

LEMMA TotalsExist ==
  ASSUME NEW h, NEW n \in Nat PROVE \E f : AreTotals(h, n, f)
<1> DEFINE bad == {m \in Nat : ~ \E f : AreTotals(h, m, f)}
<1> SUFFICES ASSUME bad # {} PROVE FALSE
  OBVIOUS
<1>1. PICK m \in bad : \A j \in bad : m <= j
  BY Smallest
<1>2. AreTotals(h, 0, [j \in 0 .. 0 |-> 0])
  BY DEF AreTotals
<1>3. m \in Nat \ {0} /\ m - 1 \in Nat /\ m - 1 \notin bad
  BY <1>1, <1>2
<1>4. PICK f : AreTotals(h, m - 1, f)
  BY <1>3
<1>5. DEFINE g == [j \in 0 .. m |-> IF j = m THEN f[m - 1] + h[m] ELSE f[j]]
<1>6. AreTotals(h, m, g)
  <2>1. \A j \in 0 .. m : g[j] = IF j = 0 THEN 0 ELSE g[j - 1] + h[j]
    BY <1>3, <1>4 DEF AreTotals
  <2> QED
    BY <2>1 DEF AreTotals
<1> QED
  BY <1>1, <1>6

LEMMA TotalOfIs ==
  ASSUME NEW h, NEW n \in Nat, NEW f, AreTotals(h, n, f), NEW k \in 0 .. n
  PROVE  TotalOf(h, k) = f[k]
<1>1. PICK g : AreTotals(h, k, g) /\ TotalOf(h, k) = g[k]
  <2>1. \E g : AreTotals(h, k, g)
    BY TotalsExist
  <2> QED
    BY <2>1 DEF AreTotals, TotalOf
<1> QED
  BY <1>1, TotalsAgree

LEMMA TotalsAreNat ==
  ASSUME NEW n \in Nat, NEW h \in [1 .. n -> Nat], NEW f, AreTotals(h, n, f)
  PROVE  \A m \in 0 .. n : f[m] \in Nat
<1> DEFINE bad == {m \in 0 .. n : f[m] \notin Nat}
<1> SUFFICES ASSUME bad # {} PROVE FALSE
  OBVIOUS
<1>1. PICK m \in bad : \A j \in bad : m <= j
  <2>1. bad \in SUBSET Nat
    OBVIOUS
  <2> HIDE DEF bad
  <2> QED
    BY <2>1, Smallest
<1>2. f[0] = 0
  BY DEF AreTotals
<1>3. m \in 1 .. n /\ m - 1 \in 0 .. n /\ m - 1 \notin bad
  BY <1>1, <1>2
<1>4. f[m] = f[m - 1] + h[m]
  BY <1>3 DEF AreTotals
<1> QED
  BY <1>1, <1>3, <1>4

\* The sums of a header are natural numbers, each of them the one before with
\* one word more.
LEMMA TotalOfSteps ==
  ASSUME NEW h \in [1 .. Words -> Nat]
  PROVE  /\ TotalOf(h, 0) = 0
         /\ \A n \in 1 .. Words : TotalOf(h, n) = TotalOf(h, n - 1) + h[n]
         /\ \A n \in 0 .. Words : TotalOf(h, n) \in Nat
<1> USE WordsAssumption
<1>1. PICK f : AreTotals(h, Words, f)
  BY TotalsExist
<1>2. \A n \in 0 .. Words : TotalOf(h, n) = f[n]
  BY <1>1, TotalOfIs
<1>3. f[0] = 0 /\ \A n \in 1 .. Words : f[n] = f[n - 1] + h[n]
  BY <1>1 DEF AreTotals
<1>4. \A n \in 0 .. Words : f[n] \in Nat
  BY <1>1, TotalsAreNat
<1>5. 0 \in 0 .. Words /\ \A n \in 1 .. Words : n - 1 \in 0 .. Words /\ n \in 0 .. Words
  OBVIOUS
<1> QED
  BY ONLY <1>2, <1>3, <1>4, <1>5

\* The word in the field counts once in the sum of the whole header.
LEMMA TotalOfReplaced ==
  ASSUME NEW h \in [1 .. Words -> Nat], h[Field] = 0, NEW w \in Nat
  PROVE  TotalOf([h EXCEPT ![Field] = w], Words) = TotalOf(h, Words) + w
<1> USE WordsAssumption
<1>1. PICK f : AreTotals(h, Words, f)
  BY TotalsExist
<1>2. \A n \in 0 .. Words : f[n] \in Nat
  BY <1>1, TotalsAreNat
<1> DEFINE k == [h EXCEPT ![Field] = w]
           g == [n \in 0 .. Words |-> IF n < Field THEN f[n] ELSE f[n] + w]
<1>3. AreTotals(k, Words, g)
  <2>1. f[0] = 0 /\ \A n \in 1 .. Words : f[n] = f[n - 1] + h[n]
    BY <1>1 DEF AreTotals
  <2>2. \A n \in 1 .. Words : k[n] = IF n = Field THEN w ELSE h[n]
    OBVIOUS
  <2>3. g[0] = 0
    BY <2>1
  <2>4. ASSUME NEW n \in 1 .. Words PROVE g[n] = g[n - 1] + k[n]
    <3>1. n - 1 \in 0 .. Words /\ h[n] \in Nat
      OBVIOUS
    <3>2. CASE n < Field
      BY <3>1, <3>2, <2>1, <2>2
    <3>3. CASE n = Field
      BY <3>1, <3>3, <1>2, <2>1, <2>2
    <3>4. CASE n > Field
      BY <3>1, <3>4, <1>2, <2>1, <2>2
    <3> QED
      BY <3>2, <3>3, <3>4
  <2>5. \A n \in 0 .. Words : g[n] = IF n = 0 THEN 0 ELSE g[n - 1] + k[n]
    <3> HIDE DEF g, k
    <3>1. \A n \in 0 .. Words : n = 0 \/ n \in 1 .. Words
      OBVIOUS
    <3>2. \A n \in 1 .. Words : n # 0
      OBVIOUS
    <3> QED
      BY <2>3, <2>4, <3>1, <3>2
  <2>6. DOMAIN g = 0 .. Words /\ g = [n \in 0 .. Words |-> g[n]]
    OBVIOUS
  <2> HIDE DEF g, k
  <2> QED
    BY <2>5, <2>6 DEF AreTotals
<1>4. f[Words] = TotalOf(h, Words) /\ g[Words] = TotalOf(k, Words)
  <2> HIDE DEF g, k
  <2> QED
    BY <1>1, <1>3, TotalOfIs
<1> QED
  BY <1>2, <1>4

\* sum abbreviates the sum of the words that were read; the field is zero until
\* the checksum is stored.
TotalInv ==
  /\ pos <= Words + 1 => header[Field] = 0 /\ total = TotalOf(header, pos - 1)
  /\ pos = Words + 2 => total + header[Field] = TotalOf(header, Words)

LEMMA TotalInvInit == ChecksumInit => TotalInv
  BY WordsAssumption, TotalOfSteps, BaseAssumption DEF ChecksumInit, TotalInv, Word

LEMMA TotalInvStep == ChecksumInv /\ TotalInv /\ [ChecksumNext]_checksumVars => TotalInv'
<1> SUFFICES ASSUME ChecksumInv, TotalInv, [ChecksumNext]_checksumVars PROVE TotalInv'
  OBVIOUS
<1> USE BaseAssumption, WordsAssumption DEF ChecksumInv, ChecksumTypeOK, Word
<1>1. CASE AddWord
  <2>1. header \in [1 .. Words -> Nat] /\ pos \in 1 .. Words
    BY <1>1 DEF AddWord
  <2>2. TotalOf(header, pos) = TotalOf(header, pos - 1) + header[pos]
    BY <2>1, TotalOfSteps
  <2>3. header[Field] = 0 /\ total = TotalOf(header, pos - 1)
    BY <2>1 DEF TotalInv
  <2>4. header' = header /\ pos' = pos + 1 /\ total' = total + header[pos]
    BY <1>1 DEF AddWord
  <2> QED
    BY ONLY <2>1, <2>2, <2>3, <2>4, WordsAssumption DEF TotalInv
<1>2. CASE Store
  <2>1. header \in [1 .. Words -> Nat] /\ pos = Words + 1 /\ pos' = Words + 2
    BY <1>2 DEF Store
  <2>2. PICK w \in Nat : w = Base - 1 - sum
    BY DEF SumIsExact
  <2>3. header' = [header EXCEPT ![Field] = w] /\ total' = total
    BY <1>2, <2>2 DEF Store
  <2>4. header[Field] = 0 /\ total = TotalOf(header, Words)
    BY <2>1 DEF TotalInv
  <2>5. header'[Field] = w
    BY <2>1, <2>3
  <2>6. TotalOf(header', Words) = total + w
    BY <2>1, <2>3, <2>4, TotalOfReplaced
  <2> QED
    BY ONLY <2>1, <2>3, <2>5, <2>6, WordsAssumption DEF TotalInv
<1>3. CASE UNCHANGED checksumVars
  BY <1>3 DEF checksumVars, TotalInv
<1> QED
  BY <1>1, <1>2, <1>3 DEF ChecksumNext, ChecksumDone

LEMMA MultipleOf ==
  ASSUME NEW k \in Nat, NEW b \in Nat \ {0} PROVE (k * b) % b = 0
<1> DEFINE x == k * b
<1>1. x \in Int
  BY SMT
<1>2. PICK q \in Int, r \in 0 .. b - 1 : x = b * q + r /\ r = x % b
  BY <1>1, SMT
<1>3. b * (k - q) = r
  BY <1>2, SMT
<1>4. CASE k = q
  BY <1>2, <1>3, <1>4, SMT
<1>5. CASE k > q
  <2>1. PICK d \in Nat : k - q = d + 1
    BY <1>5
  <2>2. b * (d + 1) = b * d + b /\ b * d >= 0
    BY SMT
  <2> QED
    BY <1>3, <2>1, <2>2, SMT
<1>6. CASE k < q
  <2>1. PICK d \in Nat : k - q = - d - 1
    BY <1>6
  <2>2. b * (- d - 1) = - (b * d) - b /\ b * d >= 0
    BY SMT
  <2> QED
    BY <1>3, <2>1, <2>2, SMT
<1> QED
  BY <1>4, <1>5, <1>6

\* A receiver of any header accepts it: with the checksum stored, the one's
\* complement sum of the words is Base - 1.
THEOREM ReceiversAccept == ChecksumSpec => []ReceiverAccepts
<1>1. ChecksumInv /\ TotalInv => ReceiverAccepts
  <2> SUFFICES ASSUME ChecksumInv, TotalInv, pos = Words + 2
               PROVE  /\ TotalOf(header, Words) > 0
                      /\ TotalOf(header, Words) % (Base - 1) = 0
    BY DEF ReceiverAccepts
  <2> USE BaseAssumption, WordsAssumption
  <2>1. carries \in Nat /\ Base - 1 \in Nat \ {0}
    BY DEF ChecksumInv, ChecksumTypeOK
  <2>2. TotalOf(header, Words) = (carries + 1) * (Base - 1)
    <3>1. total + header[Field] = (carries + 1) * (Base - 1)
      BY CompletesField DEF FieldCompletes
    <3> QED
      BY <3>1 DEF TotalInv
  <2>3. PICK k \in Nat, b \in Nat \ {0} : k = carries + 1 /\ b = Base - 1
    BY <2>1
  <2>4. k * b > 0
    <3>1. k * b = carries * b + b /\ carries * b >= 0
      BY <2>1, <2>3, SMT
    <3>2. PICK z \in Nat : z = carries * b
      BY <2>1, <3>1, SMT
    <3> QED
      BY <3>1, <3>2
  <2> QED
    BY <2>2, <2>3, <2>4, MultipleOf
<1> QED
  BY <1>1, ChecksumInvInit, ChecksumInvStep, TotalInvInit, TotalInvStep, PTL
     DEF ChecksumSpec
=============================================================================
