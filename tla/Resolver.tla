------------------------------ MODULE Resolver ------------------------------
(***************************************************************************)
(* The DNS resolver (dns/resolver.py:55-184): the process-wide CACHE and   *)
(* the coroutines that fill it, resolve_name_recursively_async, its mutual *)
(* recursion with resolve_ns_async, and resolve_name_iteratively_async.    *)
(*                                                                         *)
(* A task is a stack of coroutine frames.  asyncio is cooperative: a task  *)
(* runs until it waits for a name server, the only await that suspends, so *)
(* between two such waits no other task touches the cache.  `running` is   *)
(* the task that holds the interpreter.                                    *)
(*                                                                         *)
(* A task asks one question at a time with send_with_retry_async, which is *)
(* the query of OneShotQuery here: it ends in a reply, in an Exception, or *)
(* (Python 3.11, after silence) in a CancelledError, which no              *)
(* `except Exception` of the callers sees.                                 *)
(***************************************************************************)
EXTENDS Integers, Sequences, FiniteSets, TLC

CONSTANTS
  Tasks,      \* tasks of the event loop
  Names,      \* domain names
  Addrs,      \* IP addresses as CACHE holds them: the strings of the program,
              \* and the A objects of replies, which equal no string
  None,       \* Python's None
  Suffixes,   \* Suffixes[n]: n, n without its first label, ..., its last label
  RootAddr,   \* DNS_ROOT_LIST['l.root-servers.net.']
  StubAddr,   \* the resolver given to resolve_name_iteratively_async
  Replies,    \* Replies[q]: the replies question q can get; see Questions
  Failures,   \* how a question can fail: a subset of {"exception", "cancelled"}
  Seed,       \* CACHE after lines 29-31
  Floor,      \* an entry is used this long even if its TTL is shorter (300 s)
  MaxDepth,   \* frames before RecursionError: bound of the stack
  MaxAge      \* ages are counted up to here: bound of the clock

VARIABLES
  cache,      \* CACHE: key -> [val, ttl, age]
  stack,      \* stack[t]: the frames of task t, innermost last
  query,      \* query[t]: the question t waits for, or None
  running,    \* the task that runs, or None
  ret,        \* value the innermost frame of the running task returned
  outcome     \* outcome[t]: what the outermost call of t ended in

resolverVars == <<cache, stack, query, running, ret, outcome>>

Types == {"A", "CNAME", "NS", "SOA"}

Keys == Names \X Types

Entries == [val : Addrs \cup Names, ttl : Nat, age : Nat]

\* What update_cache takes from a record: an address from an A record, a name
\* from the others.
Fits(k, val) == val \in (IF k[2] = "A" THEN Addrs ELSE Names)

\* A question is put to an address, for a name and a type.
Questions == Addrs \X Names \X {"A", "NS"}

ASSUME ResolverAssumption ==
  /\ None \notin Tasks
  /\ RootAddr \in Addrs /\ StubAddr \in Addrs
  /\ \A n \in Names : Suffixes[n] \in Seq(Names)
  /\ \A q \in Questions : \A reply \in Replies[q] :
       /\ reply \in Seq([key : Keys, val : Addrs \cup Names, ttl : Nat])
       /\ \A i \in DOMAIN reply : Fits(reply[i].key, reply[i].val)
  /\ Failures \subseteq {"exception", "cancelled"}
  /\ \A k \in DOMAIN Seed : k \in Keys /\ Seed[k] \in Entries /\ Fits(k, Seed[k].val)
  /\ Floor \in Nat /\ MaxAge \in Nat

\* fn is the coroutine, pc the place it is suspended at, lvl the ns_level of
\* resolve_ns_async, fresh the ignore_cache of resolve_name_recursively_async.
Frames == [fn : {"name", "ns", "stub"}, name : Names, lvl : Nat,
           fresh : BOOLEAN, pc : {"start", "delegated", "ask", "asked", "pass"}]

NameFrame(n, fresh) ==
  [fn |-> "name", name |-> n, lvl |-> 0, fresh |-> fresh, pc |-> "start"]
NsFrame(n, lvl) ==
  [fn |-> "ns", name |-> n, lvl |-> lvl, fresh |-> FALSE, pc |-> "start"]
StubFrame(n) ==
  [fn |-> "stub", name |-> n, lvl |-> 0, fresh |-> FALSE, pc |-> "start"]

-----------------------------------------------------------------------------
(* What the stub resolver's replies say of aliases *)

\* Some reply to a client's name, or the program itself, makes v the alias of m.
GivesAlias(m, v) ==
  \/ \E n \in Names : \E reply \in Replies[<<StubAddr, n, "A">>] : \E i \in DOMAIN reply :
       reply[i].key = <<m, "CNAME">> /\ reply[i].val = v
  \/ <<m, "CNAME">> \in DOMAIN Seed /\ Seed[<<m, "CNAME">>].val = v

\* Every name that m could ever stand for.
EverAliases(m) ==
  {x \in Names : \A S \in SUBSET Names :
     m \in S /\ (\A a \in S : \A b \in Names : GivesAlias(a, b) => b \in S) => x \in S}

\* A reply about n may also give the aliases of other names, but not of one that
\* leads to n: the replies about that one do.
ToThePoint ==
  \A n, m \in Names : \A reply \in Replies[<<StubAddr, n, "A">>] : \A i \in DOMAIN reply :
    reply[i].key = <<m, "CNAME">> => m = n \/ n \notin EverAliases(m)

-----------------------------------------------------------------------------
(* The cache *)

\* The largest of two numbers.
Larger(a, b) == IF a > b THEN a ELSE b

\* Slip for Valid: an entry once stored is good for ever.
ValidForever(e) == TRUE

\* Line 59: the age of an entry against its TTL, but at least Floor.
Valid(e) == e.age <= Larger(e.ttl, Floor)

\* get_from_cache finds key k.
Live(k) == k \in DOMAIN cache /\ Valid(cache[k])

Value(k) == cache[k].val

\* What the lookups of the keys in K leave of the cache: get_from_cache pops
\* the expired entries it meets (line 62).
LookedUp(K) ==
  [k \in {k \in DOMAIN cache : k \in K => Valid(cache[k])} |-> cache[k]]

\* dict.update: the entries of d, and those of c for other keys.
Updated(c, d) == [k \in DOMAIN d \cup DOMAIN c |-> IF k \in DOMAIN d THEN d[k] ELSE c[k]]

\* update_cache.  A reply is the sequence of its records, those of the answer
\* section first, then the additional and the authority section: line 69
\* walks them backwards, so the first record of a key is the one that stays.
\* An OPT record (line 77) never gets here.
Stored(reply, c) ==
  LET at(k) == {i \in DOMAIN reply : reply[i].key = k}
      first(k) == CHOOSE i \in at(k) : \A j \in at(k) : i <= j
      written == {reply[i].key : i \in DOMAIN reply}
  IN  Updated(c, [k \in written |-> [val |-> reply[first(k)].val,
                                     ttl |-> reply[first(k)].ttl, age |-> 0]])

\* A tick of the clock.  Bound: an entry is at most MaxAge ticks old.
Aged(c) == [k \in DOMAIN c |->
              [c[k] EXCEPT !.age = IF @ < MaxAge THEN @ + 1 ELSE @]]

\* get_ns_from_soa: the NS record of the closest suffix that has both a SOA
\* and a NS record in the cache; None if there is no such suffix.
NsFromSoa(n) ==
  LET s == Suffixes[n]
      zones == {i \in DOMAIN s : Live(<<s[i], "SOA">>) /\ Live(<<s[i], "NS">>)}
  IN  IF zones = {} THEN None
      ELSE Value(<<s[CHOOSE i \in zones : \A j \in zones : i <= j], "NS">>)

\* Lines 113-118: the name server known for n without asking, or None.
KnownNs(n) ==
  IF NsFromSoa(n) \notin {None, n} THEN NsFromSoa(n)
  ELSE IF Live(<<n, "NS">>) THEN Value(<<n, "NS">>) ELSE None

\* An expired NS or SOA entry is never seen, so that which of them a lookup of
\* the suffixes pops makes no difference.
NsKeys(n) == {Suffixes[n][i] : i \in DOMAIN Suffixes[n]} \X {"NS", "SOA"}

\* Slip for Rounds: the level does not shorten the range.
RoundsForever(n, lvl) == 0 .. Len(Suffixes[n])

\* Line 121: the numbers of labels to strip, in the round of this level.
Rounds(n, lvl) == 0 .. Len(Suffixes[n]) - lvl

\* Lines 122 and 126-127: a round ends at the first suffix whose name server is
\* cached, or, every label stripped, at the root.
Askable(n, lvl) ==
  {i \in Rounds(n, lvl) :
     i < Len(Suffixes[n]) => Live(<<Suffixes[n][i + 1], "NS">>)}

-----------------------------------------------------------------------------
(* The stack of the running task *)

\* Task t runs its innermost frame f.
Running(t) == running = t /\ stack[t] # <<>>

Top(t) == stack[t][Len(stack[t])]

Below(t) == SubSeq(stack[t], 1, Len(stack[t]) - 1)

At(t, pc) == Below(t) \o <<[Top(t) EXCEPT !.pc = pc]>>

\* An Exception leaves every frame of the task: none of them has a handler.
Raise(t) ==
  /\ stack' = [stack EXCEPT ![t] = <<>>]
  /\ outcome' = [outcome EXCEPT ![t] = "exception"]
  /\ UNCHANGED <<query, running, ret>>

\* The innermost frame calls f and will go on at pc.
Call(t, f, pc) ==
  IF Len(stack[t]) = MaxDepth THEN Raise(t)
  ELSE /\ stack' = [stack EXCEPT ![t] = Append(At(t, pc), f)]
       /\ UNCHANGED <<query, running, ret, outcome>>

\* It returns v; the outermost call ends with that.
Return(t, v) ==
  /\ stack' = [stack EXCEPT ![t] = Below(t)]
  /\ ret' = v
  /\ outcome' = [outcome EXCEPT ![t] = IF Len(stack[t]) = 1 THEN "found" ELSE @]
  /\ UNCHANGED <<query, running>>

\* It goes on at pc without suspending.
Goto(t, pc) ==
  /\ stack' = [stack EXCEPT ![t] = At(t, pc)]
  /\ UNCHANGED <<query, running, ret, outcome>>

\* It asks q and suspends.
Ask(t, q) ==
  /\ stack' = [stack EXCEPT ![t] = At(t, "asked")]
  /\ query' = [query EXCEPT ![t] = q]
  /\ running' = None
  /\ ret' = None
  /\ UNCHANGED outcome

-----------------------------------------------------------------------------
(* resolve_name_recursively_async ("name") and resolve_name_iteratively_async
   ("stub").  Both read the cache first, unless told to ignore it, and again
   after the answer. *)

Reads(f) == /\ f.fn \in {"name", "stub"}
            /\ f.pc = "asked" \/ (f.pc = "start" /\ ~f.fresh)

\* Lines 139-141, 154-156, 166-168, 178-180.
HitAddress(t) ==
  LET f == Top(t)
      k == <<f.name, "A">>
  IN  /\ Running(t) /\ Reads(f) /\ Live(k)
      /\ Return(t, Value(k))
      /\ UNCHANGED cache

\* Lines 142-144, 157-159, 169-171, 181-183: ignore_cache is not passed on.
HitAlias(t) ==
  LET f == Top(t)
      k == <<f.name, "CNAME">>
  IN  /\ Running(t) /\ Reads(f) /\ ~Live(<<f.name, "A">>) /\ Live(k)
      /\ cache' = LookedUp({<<f.name, "A">>})
      /\ Call(t, [f EXCEPT !.name = Value(k), !.fresh = FALSE, !.pc = "start"],
              "pass")

\* Neither record is cached, or the cache is to be ignored.
Misses(f) ==
  /\ f.pc = "start"
  /\ f.fresh \/ ~(Live(<<f.name, "A">>) \/ Live(<<f.name, "CNAME">>))

MissedKeys(f) == IF f.fresh THEN {} ELSE {f.name} \X {"A", "CNAME"}

\* Line 145.
MissName(t) ==
  LET f == Top(t)
  IN  /\ Running(t) /\ f.fn = "name" /\ Misses(f)
      /\ cache' = LookedUp(MissedKeys(f))
      /\ Call(t, NsFrame(f.name, 0), "delegated")

\* Lines 172-176.
MissStub(t) ==
  LET f == Top(t)
  IN  /\ Running(t) /\ f.fn = "stub" /\ Misses(f)
      /\ cache' = LookedUp(MissedKeys(f))
      /\ Ask(t, <<StubAddr, f.name, "A">>)

\* Slip for HasServer: without the test of line 146.
HasServerUntested(t) ==
  LET f == Top(t)
  IN  /\ Running(t) /\ f.fn = "name" /\ f.pc = "delegated"
      /\ Call(t, NameFrame(ret, FALSE), "ask")
      /\ UNCHANGED cache

\* Lines 146-147: the address of the name server is needed.
HasServer(t) ==
  LET f == Top(t)
  IN  /\ Running(t) /\ f.fn = "name" /\ f.pc = "delegated" /\ ret # None
      /\ Call(t, NameFrame(ret, FALSE), "ask")
      /\ UNCHANGED cache

\* Line 146: without a name server the cache is read once more.
HasNoServer(t) ==
  LET f == Top(t)
  IN  /\ Running(t) /\ f.fn = "name" /\ f.pc = "delegated" /\ ret = None
      /\ Goto(t, "asked")
      /\ UNCHANGED cache

\* Lines 148-152.
AskName(t) ==
  LET f == Top(t)
  IN  /\ Running(t) /\ f.fn = "name" /\ f.pc = "ask"
      /\ Ask(t, <<ret, f.name, "A">>)
      /\ UNCHANGED cache

\* Slip for NotFound: it returns None.
NotFoundReturns(t) ==
  LET f == Top(t)
  IN  /\ Running(t) /\ f.fn \in {"name", "stub"} /\ f.pc = "asked"
      /\ ~Live(<<f.name, "A">>) /\ ~Live(<<f.name, "CNAME">>)
      /\ cache' = LookedUp({f.name} \X {"A", "CNAME"})
      /\ Return(t, None)

\* Lines 160, 184.
NotFound(t) ==
  LET f == Top(t)
  IN  /\ Running(t) /\ f.fn \in {"name", "stub"} /\ f.pc = "asked"
      /\ ~Live(<<f.name, "A">>) /\ ~Live(<<f.name, "CNAME">>)
      /\ cache' = LookedUp({f.name} \X {"A", "CNAME"})
      /\ Raise(t)

\* `return await f(...)`: what f returned is returned.
Pass(t) ==
  /\ Running(t) /\ Top(t).pc = "pass"
  /\ Return(t, ret)
  /\ UNCHANGED cache

-----------------------------------------------------------------------------
(* resolve_ns_async *)

StartsNs(t) == Running(t) /\ Top(t).fn = "ns" /\ Top(t).pc = "start"

\* Lines 113-118.
NsKnown(t) ==
  LET f == Top(t)
  IN  /\ StartsNs(t) /\ KnownNs(f.name) # None
      /\ cache' = LookedUp(NsKeys(f.name))
      /\ Return(t, KnownNs(f.name))

\* The round this frame is in can ask the server of the suffix that i labels
\* fewer leave, and no longer one.
NsRound(t, i) ==
  LET f == Top(t)
  IN  /\ KnownNs(f.name) = None
      /\ i \in Askable(f.name, f.lvl)
      /\ \A j \in Askable(f.name, f.lvl) : i <= j
      /\ cache' = LookedUp(NsKeys(f.name))

\* Lines 122-123: ask a root server for the name servers.
NsAskRoot(t) ==
  LET f == Top(t)
  IN  /\ StartsNs(t)
      /\ NsRound(t, Len(Suffixes[f.name]))
      /\ Ask(t, <<RootAddr, f.name, "NS">>)

\* Lines 126-128: the address of the suffix's name server is needed.
NsFind(t) ==
  LET f == Top(t)
  IN  /\ StartsNs(t)
      /\ \E i \in 0 .. Len(Suffixes[f.name]) - 1 :
           /\ NsRound(t, i)
           /\ Call(t, NameFrame(Value(<<Suffixes[f.name][i + 1], "NS">>), FALSE),
                   "ask")

\* Lines 129-130: it is always there, for the call returns an entry or raises.
NsAsk(t) ==
  LET f == Top(t)
  IN  /\ Running(t) /\ f.fn = "ns" /\ f.pc = "ask"
      /\ Ask(t, <<ret, f.name, "NS">>)
      /\ UNCHANGED cache

\* Slip for NsAgain: the search starts over at its own level.
NsAgainSameLevel(t) ==
  LET f == Top(t)
  IN  /\ Running(t) /\ f.fn = "ns" /\ f.pc = "asked"
      /\ Goto(t, "start")
      /\ UNCHANGED cache

\* Lines 124, 131: look again, one level up.
NsAgain(t) ==
  LET f == Top(t)
  IN  /\ Running(t) /\ f.fn = "ns" /\ f.pc = "asked"
      /\ Call(t, NsFrame(f.name, f.lvl + 1), "pass")
      /\ UNCHANGED cache

\* Line 132: the rounds are used up.
NsGivesUp(t) ==
  LET f == Top(t)
  IN  /\ StartsNs(t) /\ KnownNs(f.name) = None /\ Askable(f.name, f.lvl) = {}
      /\ cache' = LookedUp(NsKeys(f.name))
      /\ Return(t, None)

-----------------------------------------------------------------------------
(* The awaits *)

\* The reply arrives and the task resumes: send_with_retry_async stores it
\* (line 94) and so does its caller (123, 130, 153, 177), in the same step of
\* the event loop, to the same effect.
Answered(t) ==
  /\ running = None /\ query[t] # None
  /\ \E reply \in Replies[query[t]] : cache' = Stored(reply, cache)
  /\ query' = [query EXCEPT ![t] = None]
  /\ running' = t
  /\ UNCHANGED <<stack, ret, outcome>>

\* The question fails: the task resumes with an exception.
Unanswered(t) ==
  /\ running = None /\ query[t] # None
  /\ \E e \in Failures : outcome' = [outcome EXCEPT ![t] = e]
  /\ query' = [query EXCEPT ![t] = None]
  /\ stack' = [stack EXCEPT ![t] = <<>>]
  /\ running' = t
  /\ UNCHANGED <<cache, ret>>

\* One step of task t inside the resolver.
ResolverStep(t) ==
  \/ HitAddress(t) \/ HitAlias(t) \/ MissName(t) \/ MissStub(t)
  \/ HasServer(t) \/ HasNoServer(t) \/ AskName(t) \/ NotFound(t) \/ Pass(t)
  \/ NsKnown(t) \/ NsAskRoot(t) \/ NsFind(t) \/ NsAsk(t) \/ NsAgain(t)
  \/ NsGivesUp(t) \/ Answered(t) \/ Unanswered(t)

ResolverInit ==
  /\ cache = Seed
  /\ stack = [t \in Tasks |-> <<>>]
  /\ query = [t \in Tasks |-> None]
  /\ running = None
  /\ ret = None
  /\ outcome = [t \in Tasks |-> None]
=============================================================================
