---------------------------- MODULE MCForwarder -----------------------------
(***************************************************************************)
(* Two clients, of web and of cdn, and a frame of every other kind.  web   *)
(* is an alias of cdn, with or without cdn's address in the reply, or has  *)
(* an address; cdn has an address, is in a loop of aliases with web, or    *)
(* has nothing.                                                            *)
(***************************************************************************)
EXTENDS Forwarder

CONSTANTS web, cdn, stub, ip1, ip2, bench1, hello1, hello2, noise, alien, scrap

MCNames == {web, cdn}
MCAddrs == {stub, ip1, ip2, bench1}
MCSuffixes == [n \in MCNames |-> <<n>>]

RR(n, type, val, ttl) == [key |-> <<n, type>>, val |-> val, ttl |-> ttl]

MCReplies ==
  [q \in MCAddrs \X MCNames \X {"A", "NS"} |->
    IF q[2] = web THEN {<<RR(web, "A", ip1, 0)>>, <<RR(web, "CNAME", cdn, 0)>>,
                        <<RR(web, "CNAME", cdn, 0), RR(cdn, "A", ip2, 0)>>}
    ELSE {<<RR(cdn, "A", ip1, 2)>>, <<RR(cdn, "A", ip2, 0)>>,
          <<RR(cdn, "CNAME", web, 0)>>, << >>}]

\* What the proof about routes asks of the replies.
ASSUME RepliesToThePoint == ToThePoint

MCPackets == {hello1, hello2, noise, alien, scrap}
MCServerName == [p \in MCPackets |-> IF p = hello2 THEN cdn ELSE web]
MCKind == [p \in MCPackets |-> CASE p = noise -> "garbled"
                                 [] p = alien -> "foreign"
                                 [] p = scrap -> "fragment"
                                 [] OTHER -> "hello"]
MCSeed == [k \in {} |-> None]
=============================================================================
