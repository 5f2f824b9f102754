---------------------------- MODULE MCLegacyDns -----------------------------
(***************************************************************************)
(* A small name space: the top-level domain com, its name server ns, a     *)
(* domain web that is an address or an alias of cdn, and another server.   *)
(* rs is the root server, whose address the program has as a string, root; *)
(* rootA is the same address in a record.                                  *)
(***************************************************************************)
EXTENDS LegacyDns

CONSTANTS com, ns, web, cdn, rs, root, rootA, stub, ip1, ip2, nsip

MCNames == {com, ns, web, cdn, rs}
MCAddrs == {root, rootA, stub, ip1, ip2, nsip}

MCSuffixes == [n \in MCNames |-> IF n \in {com, rs} THEN <<n>> ELSE <<n, com>>]

RR(n, type, val, ttl) == [key |-> <<n, type>>, val |-> val, ttl |-> ttl]

\* web moves: it is at ip1, at ip2, or an alias of cdn.
WebAnswers == { <<RR(web, "A", ip1, 0)>>,
                <<RR(web, "A", ip2, 2)>>,
                <<RR(web, "CNAME", cdn, 0)>> }

\* Zones in order: the root refers to com's server, which is the authority for
\* all the names below com.
MCReplies ==
  [q \in MCAddrs \X MCNames \X {"A", "NS"} |->
    CASE q[1] = root -> {<<RR(ns, "A", nsip, 0), RR(com, "NS", ns, 0)>>}
      [] q[1] = nsip /\ q[3] = "NS" -> {<<RR(com, "SOA", ns, 0)>>}
      [] q[1] \in {nsip, stub} /\ q[2] = web -> WebAnswers
      [] q[1] \in {nsip, stub} /\ q[2] = cdn -> {<<RR(cdn, "A", ip2, 0)>>}
      [] OTHER -> {<< >>}]

\* The root's own records.
RootReplies == {<<RR(rs, "A", rootA, 2), RR(rs, "NS", rs, 0)>>}

\* Zones in disorder: any reply may be empty, the referral may lack the address
\* of com's server, no SOA is given, and web and cdn may be aliases of each
\* other.
BrokenReplies ==
  [q \in MCAddrs \X MCNames \X {"A", "NS"} |->
    {<< >>} \cup
    CASE q[1] \in {root, rootA, stub} /\ q[2] = rs -> RootReplies
      [] q[1] = root -> {<<RR(ns, "A", nsip, 0), RR(com, "NS", ns, 0)>>,
                         <<RR(com, "NS", ns, 0)>>}
      [] q[1] = nsip /\ q[3] = "NS" -> {<<RR(web, "NS", ns, 0)>>}
      [] q[1] \in {nsip, stub} /\ q[2] = web ->
           {<<RR(web, "A", ip1, 2)>>, <<RR(web, "CNAME", cdn, 0)>>}
      [] q[1] \in {nsip, stub} /\ q[2] = cdn ->
           {<<RR(cdn, "A", ip2, 0)>>, <<RR(cdn, "CNAME", web, 0)>>}
      [] OTHER -> {}]

\* What the proofs about replies and routes ask of the stub resolver.
ASSUME RepliesToThePoint == ToThePoint

TaskSymmetry == Permutations(Tasks)

MCSeed == [k \in {} |-> None]

\* The entry that line 31 makes; its TTL is longer than the clock is counted.
RootSeed == [k \in {<<rs, "A">>} |-> [val |-> root, ttl |-> MaxAge, age |-> 0]]
=============================================================================
