----------------------------- MODULE LegacyDns ------------------------------
(***************************************************************************)
(* The edge DNS server (dns_legacy_aio.py): queries on the UDP port, each  *)
(* resolved by a task of its own, and the control port, where a datagram   *)
(* with a domain name refreshes the cache and tells the sender the new     *)
(* address.  Both share the resolver's CACHE (module Resolver), which is   *)
(* saved when the server is interrupted and loaded when it starts.         *)
(*                                                                         *)
(* Time: entries age in ticks, and a tick is longer than any resolution,   *)
(* so that a request lives through one tick at most.  The second of the    *)
(* control port's rate limit is a step of its own.                         *)
(***************************************************************************)
EXTENDS Resolver

CONSTANTS
  Domains,      \* the names clients ask for
  Recursive,    \* which servers: {TRUE} without --ns, {FALSE} with it
  MayRestart    \* which of them are interrupted or killed: a bound

VARIABLES
  recursive,    \* BaseResolver without a system resolver (args.ns is None)
  job,          \* job[t]: the request t serves, or None
  recent,       \* domains whose entry of update_record is less than 1 s old
  slow,         \* tasks whose request has seen a tick
  saved,        \* the cache file
  out           \* the datagram sent by the last step, or None

serverVars == <<recursive, job, recent, slow, saved, out>>

vars == <<resolverVars, serverVars>>

\* before is the A record that update_dns_cache remembers (line 212).
Jobs == [kind : {"query", "refresh"}, name : Domains, before : Addrs \cup {None}]

ASSUME ServerAssumption ==
  Domains \subseteq Names /\ Recursive \subseteq BOOLEAN /\ None \notin Jobs

-----------------------------------------------------------------------------
(* Requests *)

Outermost(n, ignore) == IF recursive THEN NameFrame(n, ignore) ELSE StubFrame(n)

\* Lines 165-170: t starts to resolve n; ignore_cache is for the recursive
\* resolver only.
Start(t, n, ignore) ==
  /\ stack' = [stack EXCEPT ![t] = <<Outermost(n, ignore)>>]
  /\ running' = t
  /\ UNCHANGED <<query, ret, outcome>>

\* UdpServerProtocol.datagram_received: a task for the query.
Query(t, n) ==
  /\ running = None /\ job[t] = None
  /\ job' = [job EXCEPT ![t] = [kind |-> "query", name |-> n, before |-> None]]
  /\ Start(t, n, FALSE)
  /\ out' = None
  /\ UNCHANGED <<cache, recursive, recent, slow, saved>>

\* update_dns_cache up to its await (208-214).  A request within a second of
\* the last one for the domain changes nothing.
Refresh(t, n) ==
  /\ running = None /\ job[t] = None
  /\ n \notin recent
  /\ recent' = recent \cup {n}
  /\ cache' = LookedUp({<<n, "A">>})
  /\ job' = [job EXCEPT ![t] =
               [kind |-> "refresh", name |-> n,
                before |-> IF Live(<<n, "A">>) THEN Value(<<n, "A">>) ELSE None]]
  /\ Start(t, n, TRUE)
  /\ out' = None
  /\ UNCHANGED <<recursive, slow, saved>>

-----------------------------------------------------------------------------
(* The reply (171-186) *)

\* Line 173 and 179 read CACHE itself: they take expired entries too.
Cached(k) == k \in DOMAIN cache

\* The names the while loop visits, following aliases until a name has an A
\* record, or none at all.
Chain(n) ==
  LET followed(S) == \A m \in S :
        ~Cached(<<m, "A">>) /\ Cached(<<m, "CNAME">>) => Value(<<m, "CNAME">>) \in S
  IN  {m \in Names : \A S \in SUBSET Names : n \in S /\ followed(S) => m \in S}

\* The loop ends: a name it visits has an A record, or no alias.
Ends(n) == \E m \in Chain(n) : Cached(<<m, "A">>) \/ ~Cached(<<m, "CNAME">>)

KeyOf(m) == IF Cached(<<m, "A">>) THEN <<m, "A">> ELSE <<m, "CNAME">>

\* The last name of the chain contributes nothing if it has no record.
AnswerKeys(n) == {KeyOf(m) : m \in Chain(n)} \cap DOMAIN cache

Answer(n) == [kind |-> "answer", name |-> n,
              records |-> {[key |-> k, entry |-> cache[k]] : k \in AnswerKeys(n)}]

NxDomain(n) == [kind |-> "nxdomain", name |-> n]

Notice(n, addr) == [kind |-> "notice", name |-> n, addr |-> addr]

\* The outermost resolution of t is over, t still runs.
Resolved(t) == running = t /\ stack[t] = <<>>

Finish(t) ==
  /\ job' = [job EXCEPT ![t] = None]
  /\ slow' = slow \ {t}
  /\ outcome' = [outcome EXCEPT ![t] = None]
  /\ ret' = None
  /\ running' = None
  /\ UNCHANGED <<stack, query, recursive, recent, saved>>

\* resolve() completes and the reply is sent (187-194, 252-253).  Without an
\* end to the chain the server stays in the loop: the step is not enabled.
Reply(t) ==
  /\ Resolved(t) /\ job[t].kind = "query"
  /\ \/ /\ outcome[t] = "found"
        /\ Ends(job[t].name)
        /\ out' = Answer(job[t].name)
     \/ /\ outcome[t] = "exception"
        /\ out' = NxDomain(job[t].name)
  /\ Finish(t)
  /\ UNCHANGED cache

\* Slip for Refreshed: the old address and the new one are not compared.
RefreshedUncompared(t) ==
  /\ Resolved(t) /\ job[t].kind = "refresh" /\ outcome[t] # "cancelled"
  /\ LET n == job[t].name
         now == IF Live(<<n, "A">>) THEN Value(<<n, "A">>) ELSE None
     IN  /\ outcome[t] = "found" => Ends(n)
         /\ cache' = LookedUp({<<n, "A">>})
         /\ out' = IF None \notin {now, job[t].before} THEN Notice(n, now) ELSE None
  /\ Finish(t)

\* The rest of update_dns_cache (215-220), whether or not resolve() met an
\* exception.  Line 216 fails with a TypeError unless the domain had a valid A
\* record both before and after.  Line 218 compares what CACHE holds: an address
\* of the program itself, a string, differs from the A object of any reply, that
\* of the same address included.
Refreshed(t) ==
  /\ Resolved(t) /\ job[t].kind = "refresh" /\ outcome[t] # "cancelled"
  /\ LET n == job[t].name
         now == IF Live(<<n, "A">>) THEN Value(<<n, "A">>) ELSE None
     IN  /\ outcome[t] = "found" => Ends(n)
         /\ cache' = LookedUp({<<n, "A">>})
         /\ out' = IF None \notin {now, job[t].before} /\ now # job[t].before
                   THEN Notice(n, now) ELSE None
  /\ Finish(t)

\* A CancelledError passes line 187: the task ends, and nothing is sent.
Cancelled(t) ==
  /\ Resolved(t) /\ outcome[t] = "cancelled"
  /\ out' = None
  /\ Finish(t)
  /\ UNCHANGED cache

-----------------------------------------------------------------------------
(* Time and restarts *)

\* A second has passed since n was refreshed (208).
SecondPasses(n) ==
  /\ n \in recent
  /\ recent' = recent \ {n}
  /\ out' = None
  /\ UNCHANGED <<resolverVars, recursive, job, slow, saved>>

\* Slip for Tick: the file holds ages instead of times.
TickFileAgeless ==
  /\ running = None /\ recent = {} /\ slow = {}
  /\ cache' = Aged(cache)
  /\ slow' = {t \in Tasks : job[t] # None}
  /\ out' = None
  /\ UNCHANGED <<stack, query, running, ret, outcome, recursive, job, recent,
                 saved>>

\* Entries age, those of the file too: they hold the time they were stored at.
Tick ==
  /\ running = None /\ recent = {} /\ slow = {}
  /\ cache' = Aged(cache)
  /\ saved' = Aged(saved)
  /\ slow' = {t \in Tasks : job[t] # None}
  /\ out' = None
  /\ UNCHANGED <<stack, query, running, ret, outcome, recursive, job, recent>>

\* The server starts over with the file f (274-283): its requests are gone.
Restart(f) ==
  /\ cache' = Updated(Seed, f)
  /\ stack' = [t \in Tasks |-> <<>>]
  /\ query' = [t \in Tasks |-> None]
  /\ running' = None
  /\ ret' = None
  /\ outcome' = [t \in Tasks |-> None]
  /\ job' = [t \in Tasks |-> None]
  /\ recent' = {}
  /\ slow' = {}
  /\ out' = None
  /\ UNCHANGED recursive

\* There is no cache file, or none that can be read (276, 280).
NoFile == [k \in {} |-> None]

\* Interrupted from the keyboard, it saves the cache (284-286).
Interrupt == recursive \in MayRestart /\ running = None /\ saved' = cache /\ Restart(cache)

\* Killed, it does not; killed while it saves, it leaves a file that is cut off.
Crash ==
  /\ recursive \in MayRestart
  /\ \E f \in {saved, NoFile} : saved' = f /\ Restart(f)

-----------------------------------------------------------------------------

Init ==
  /\ ResolverInit
  /\ recursive \in Recursive
  /\ job = [t \in Tasks |-> None]
  /\ recent = {}
  /\ slow = {}
  /\ saved = NoFile
  /\ out = None

Resolve(t) == ResolverStep(t) /\ out' = None
              /\ UNCHANGED <<recursive, job, recent, slow, saved>>

Serve(t) == Resolve(t) \/ Reply(t) \/ Refreshed(t) \/ Cancelled(t)

Next ==
  \/ \E t \in Tasks : Serve(t)
  \/ \E t \in Tasks, n \in Domains : Query(t, n) \/ Refresh(t, n)
  \/ \E n \in Domains : SecondPasses(n)
  \/ Tick
  \/ Interrupt
  \/ Crash

\* The event loop runs a task that is ready, and a question ends in a reply or
\* a failure (DnsExchange!ExchangeEnds).
Spec == Init /\ [][Next]_vars /\ \A t \in Tasks : WF_vars(Serve(t))

TypeOK ==
  /\ DOMAIN cache \subseteq Keys
  /\ \A k \in DOMAIN cache : cache[k] \in Entries
  /\ stack \in [Tasks -> Seq(Frames)]
  /\ query \in [Tasks -> Questions \cup {None}]
  /\ running \in Tasks \cup {None}
  /\ ret \in Addrs \cup Names \cup {None}
  /\ outcome \in [Tasks -> {None, "found", "exception", "cancelled"}]
  /\ recursive \in BOOLEAN
  /\ job \in [Tasks -> Jobs \cup {None}]
  /\ recent \subseteq Domains
  /\ slow \subseteq Tasks
  /\ \A k \in DOMAIN saved : k \in Keys /\ saved[k] \in Entries

-----------------------------------------------------------------------------
(* Properties *)

\* A reply that is not NXDOMAIN gives an address, though it is put together
\* from the cache after the resolution, and other tasks have changed the
\* cache while this one waited.
AnswerHasAddress ==
  out # None /\ out.kind = "answer" =>
    \E r \in out.records : r.key[2] = "A"

\* A record of a reply was valid while the request was served: lines 173 and
\* 179 do not check it, and it may have expired since the resolution met it,
\* but no longer ago than that.
AnswerIsRecent ==
  out # None /\ out.kind = "answer" =>
    \A r \in out.records : r.entry.age <= Larger(r.entry.ttl, Floor) + 1

\* A notice tells an address that a name server has given during the refresh,
\* so that the cache has held it for a tick at most.  The refresh does not see
\* that: it compares what the cache held before its wait with what it holds
\* after, and in between other tasks write entries and drop them, and the
\* refresh itself may fail or fall back on what it had.
NoticeIsNews ==
  out # None /\ out.kind = "notice" =>
    LET k == <<out.name, "A">>
    IN  k \in DOMAIN cache /\ cache[k].val = out.addr /\ cache[k].age <= 1

\* The search for a name server goes through its rounds at most once.
RoundsAreBounded ==
  \A t \in Tasks : \A i \in DOMAIN stack[t] :
    stack[t][i].fn = "ns" => stack[t][i].lvl <= Len(Suffixes[stack[t][i].name]) + 1

\* An entry gets younger only by being stored anew from a reply, never by the
\* server's being restarted from a file.  The root servers' addresses, which
\* are in the program itself, are new whenever it starts.
OnlyRepliesRenew ==
  [][ (\E k \in (DOMAIN cache \cap DOMAIN cache') \ DOMAIN Seed :
         cache'[k].age < cache[k].age)
        => \E t \in Tasks : query[t] # None /\ query'[t] = None /\ running' = t ]_vars

\* Every request ends, whatever the name servers answer.
RequestsEnd == \A t \in Tasks : job[t] # None ~> job[t] = None
=============================================================================
