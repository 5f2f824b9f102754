----------------------------- MODULE Forwarder ------------------------------
(***************************************************************************)
(* The forwarder (dns_aeacus_aio.py:103-150).  One coroutine takes a frame *)
(* off a raw socket, reads the server name in the ClientHello of a QUIC    *)
(* packet, resolves it with resolve_name_iteratively_async, and sends the  *)
(* packet on to the address found.  It waits for the resolution before it  *)
(* takes the next frame.                                                   *)
(*                                                                         *)
(* The rewritten IP header and its checksum are module IpChecksum; the     *)
(* resolution is module Resolver, whose only task here is the serve loop.  *)
(* The ingress and the egress interface are different ones.                *)
(***************************************************************************)
EXTENDS Resolver

CONSTANTS
  ServeTask,     \* the task of serve(), the only one
  Packets,       \* frames, each of which arrives once at most
  Kind,          \* Kind[p]: see Kinds
  ServerName,    \* ServerName[p]: the name in the ClientHello of p
  Buffer,        \* frames the socket holds
  Benchmarks,    \* values of --benchmark: a subset of BOOLEAN
  BenchAddrs     \* the addresses that a benchmark forwards to

\* A QUIC packet with a ClientHello; a packet to the port that the library
\* finds no ClientHello in; one of another protocol or to another port; and a
\* fragment of a UDP packet, too short for the header that line 115 unpacks.
Kinds == {"hello", "garbled", "foreign", "fragment"}

ASSUME ServeAssumption == Tasks = {ServeTask}
ASSUME PacketsAssumption == None \notin Packets
ASSUME KindAssumption == Kind \in [Packets -> Kinds]
ASSUME ServerNameAssumption == ServerName \in [Packets -> Names]
ASSUME BufferAssumption == Buffer \in Nat \ {0}

VARIABLES
  benchmark,   \* BENCHMARK
  queue,       \* the frames in the socket
  arrived,     \* those that ever came, in their order
  hand,        \* the packet whose name is being resolved, or None
  sent,        \* sequence of [packet, to]
  alive,       \* serve() runs
  slow         \* there was a tick since the packet in hand was taken

forwarderVars == <<benchmark, queue, arrived, hand, sent, alive, slow>>

vars == <<resolverVars, forwarderVars>>

Elements(s) == {s[i] : i \in DOMAIN s}

TypeOK ==
  /\ benchmark \in BOOLEAN
  /\ queue \in Seq(Packets) /\ Len(queue) <= Buffer
  /\ arrived \in Seq(Packets)
  /\ hand \in Packets \cup {None}
  /\ sent \in Seq([packet : Packets, to : Addrs])
  /\ alive \in BOOLEAN
  /\ slow \in BOOLEAN
  /\ slow => hand # None
  /\ query[ServeTask] # None => hand # None

Init ==
  /\ ResolverInit
  /\ benchmark \in Benchmarks
  /\ queue = << >>
  /\ arrived = << >>
  /\ hand = None
  /\ sent = << >>
  /\ alive = TRUE
  /\ slow = FALSE

-----------------------------------------------------------------------------

\* A frame reaches the socket.  A full socket drops it, which changes nothing.
Arrive(p) ==
  /\ running = None
  /\ p \notin Elements(arrived)
  /\ Len(queue) < Buffer
  /\ queue' = Append(queue, p)
  /\ arrived' = Append(arrived, p)
  /\ UNCHANGED <<resolverVars, benchmark, hand, sent, alive, slow>>

Takes(kinds) ==
  /\ alive /\ running = None /\ hand = None
  /\ queue # << >> /\ Kind[Head(queue)] \in kinds
  /\ queue' = Tail(queue)
  /\ UNCHANGED <<benchmark, arrived, sent, slow>>

\* Lines 107-121: the resolution of the server name begins.
Receive ==
  /\ Takes({"hello"})
  /\ hand' = Head(queue)
  /\ stack' = [stack EXCEPT ![ServeTask] = <<StubFrame(ServerName[Head(queue)])>>]
  /\ running' = ServeTask
  /\ UNCHANGED <<cache, query, ret, outcome, alive>>

\* Slip for Skip: what is wrong with a packet is not caught.
SkipUncaught ==
  /\ Takes({"garbled", "foreign"})
  /\ alive' = (Kind[Head(queue)] = "foreign")
  /\ UNCHANGED <<resolverVars, hand>>

\* Lines 114 and 117 pass over a frame; lines 120 and 147 over a packet.
Skip ==
  /\ Takes({"garbled", "foreign"})
  /\ UNCHANGED <<resolverVars, hand, alive>>

\* Line 115 is outside the inner try: struct.error ends the loop.
ReceiveFragment ==
  /\ Takes({"fragment"})
  /\ alive' = FALSE
  /\ UNCHANGED <<resolverVars, hand>>

\* The resolution is over, with outcome o.
Resolved(o) ==
  running = ServeTask /\ stack[ServeTask] = << >> /\ outcome[ServeTask] = o

\* The loop is done with the packet in hand.
Release ==
  /\ hand # None
  /\ hand' = None
  /\ slow' = FALSE
  /\ running' = None
  /\ ret' = None
  /\ outcome' = [outcome EXCEPT ![ServeTask] = None]
  /\ UNCHANGED <<cache, stack, query, benchmark, queue, arrived>>

\* Lines 121-146: a benchmark forwards to one of two servers, whatever the
\* name stands for.
Forward ==
  /\ Resolved("found")
  /\ \E a \in IF benchmark THEN BenchAddrs ELSE {ret} :
       sent' = Append(sent, [packet |-> hand, to |-> a])
  /\ Release
  /\ UNCHANGED alive

\* The egress socket refuses the frame (146-148).
SendFails ==
  /\ Resolved("found")
  /\ Release
  /\ UNCHANGED <<sent, alive>>

\* Slip for Fail: the packet goes back to the end of the queue.
FailRequeues ==
  /\ Resolved("exception")
  /\ hand # None
  /\ queue' = Append(queue, hand)
  /\ hand' = None /\ slow' = FALSE /\ running' = None /\ ret' = None
  /\ outcome' = [outcome EXCEPT ![ServeTask] = None]
  /\ UNCHANGED <<cache, stack, query, benchmark, arrived, sent, alive>>

\* Lines 147-148: the name does not resolve, and the packet is dropped.
Fail ==
  /\ Resolved("exception")
  /\ Release
  /\ UNCHANGED <<sent, alive>>

\* A CancelledError (Python 3.11, after a silence) is no Exception: it leaves
\* serve() and ends the process.
Cancel ==
  /\ Resolved("cancelled")
  /\ Release
  /\ alive' = FALSE
  /\ UNCHANGED sent

\* A tick is longer than any resolution: a packet in hand sees one at most.
Tick ==
  /\ running = None /\ ~slow
  /\ cache' = Aged(cache)
  /\ slow' = (hand # None)
  /\ UNCHANGED <<stack, query, running, ret, outcome, benchmark, queue, arrived,
                 hand, sent, alive>>

\* The steps of resolve_name_iteratively_async.
Resolve(t) ==
  /\ \/ HitAddress(t) \/ HitAlias(t) \/ MissStub(t) \/ NotFound(t) \/ Pass(t)
     \/ Answered(t) \/ Unanswered(t)
  /\ UNCHANGED forwarderVars

Serve ==
  \/ Receive \/ Skip \/ ReceiveFragment
  \/ Forward \/ SendFails \/ Fail \/ Cancel
  \/ Resolve(ServeTask)

Ended == ~alive /\ UNCHANGED vars

Next == Serve \/ (\E p \in Packets : Arrive(p)) \/ Tick \/ Ended

\* The event loop runs the coroutine; a question ends in a reply or a failure.
Spec == Init /\ [][Next]_vars /\ WF_vars(Serve)

-----------------------------------------------------------------------------
(* Properties *)

\* The names that stand for n: those in every set that holds n and, with a name,
\* the one that its alias in the cache gives.
Aliases(n) ==
  LET followed(S) == \A m \in S :
        <<m, "CNAME">> \in DOMAIN cache => Value(<<m, "CNAME">>) \in S
  IN  {m \in Names : \A S \in SUBSET Names : n \in S /\ followed(S) => m \in S}

\* A packet goes to an address that a record gives for its server's name, not
\* expired when the packet leaves, even though the alias that led there may
\* have expired during the wait.
RouteIsValid ==
  [][ sent' # sent /\ ~benchmark =>
        \E m \in Aliases(ServerName[hand]) :
          LET k == <<m, "A">>
          IN  /\ k \in DOMAIN cache /\ cache[k].val = sent'[Len(sent')].to
              /\ cache[k].age <= Larger(cache[k].ttl, Floor) ]_vars

\* The packets leave in the order of their arrival, none of them twice.
Pipe == INSTANCE LossyPipe WITH
  pending   <- IF hand = None THEN queue ELSE <<hand>> \o queue,
  delivered <- [i \in DOMAIN sent |-> sent[i].packet],
  intact    <- alive

IsPipe == Pipe!Spec

\* A frame that came before p is one that line 115 cannot unpack.
BehindFragment(p) ==
  \E i, j \in DOMAIN arrived : i < j /\ arrived[j] = p /\ Kind[arrived[i]] = "fragment"

\* A packet that cannot be read, resolved or sent costs only itself: every one
\* that a loop at work finds behind it is still taken, and is resolved or given
\* up.  Two things cost those behind them as well, a fragment (line 115) and a
\* CancelledError (line 121).
PacketsAreServed ==
  \A p \in Packets :
    alive /\ p \in Elements(queue) ~>
      \/ p \notin Elements(queue) /\ hand # p
      \/ BehindFragment(p)
      \/ outcome[ServeTask] = "cancelled"
=============================================================================
