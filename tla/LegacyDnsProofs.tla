--------------------------- MODULE LegacyDnsProofs ---------------------------
(***************************************************************************)
(* Proofs about LegacyDns, for any name space, any replies of any name     *)
(* servers and any number of requests: typing, the end of the search for   *)
(* name servers, the control port, and restarts from the cache file.  The  *)
(* last part, about what a reply says, is for one request at a time.       *)
(*                                                                         *)
(* The resolver's frames pass values to each other through `ret`.  Called  *)
(* and Expects say which: a frame that was called for a name server gives  *)
(* a name or None, any other an address.                                   *)
(***************************************************************************)
EXTENDS LegacyDns, WellFoundedInduction, SequenceTheorems, TLAPS

\* A cache whose entries fit their keys.
Stocked(c) ==
  \A k \in DOMAIN c : k \in Keys /\ c[k] \in Entries /\ Fits(k, c[k].val)

\* The frames of a search that stays within its rounds.
GoodFrames ==
  {f \in Frames : f.fn = "ns" =>
     /\ f.lvl <= Len(Suffixes[f.name]) + 1
     /\ f.pc \in {"ask", "asked"} => f.lvl <= Len(Suffixes[f.name])}

\* A frame of coroutine fn that waits at pc may have called coroutine gn.
Calls(fn, pc, gn) ==
  /\ pc = "delegated" => gn = "ns"
  /\ pc = "ask" => gn # "ns"
  /\ pc = "pass" => (fn = "ns" <=> gn = "ns")

Called(f, g) == Calls(f.fn, f.pc, g.fn)

\* Frame f may go to pc.
MayGo(f, pc) ==
  /\ pc \in {"delegated", "ask", "asked", "pass"}
  /\ f.fn = "ns" /\ pc \in {"ask", "asked"} => f.lvl <= Len(Suffixes[f.name])

Gives(f, v) == v \in (IF f.fn = "ns" THEN Names \cup {None} ELSE Addrs)

\* Frame f can go on with v.
Expects(f, v) ==
  /\ f.pc = "delegated" => v \in Names \cup {None}
  /\ f.pc = "ask" => v \in Addrs
  /\ f.pc = "pass" => Gives(f, v)

Nested == \A t \in Tasks : \A i \in 1 .. Len(stack[t]) - 1 : Called(stack[t][i], stack[t][i + 1])

Waiting == \A t \in Tasks : query[t] # None =>
             t # running /\ stack[t] # <<>> /\ Top(t).pc = "asked"

Ready == \A t \in Tasks : Running(t) => Expects(Top(t), ret)

ResolverInv ==
  /\ Stocked(cache)
  /\ stack \in [Tasks -> Seq(GoodFrames)]
  /\ query \in [Tasks -> Questions \cup {None}]
  /\ running \in Tasks \cup {None}
  /\ ret \in Addrs \cup Names \cup {None}
  /\ outcome \in [Tasks -> {None, "found", "exception", "cancelled"}]
  /\ Nested /\ Waiting /\ Ready

-----------------------------------------------------------------------------
(* The cache *)

LEMMA LookedUpStocked == ASSUME Stocked(cache), NEW K PROVE Stocked(LookedUp(K))
  BY DEF Stocked, LookedUp

LEMMA AgedStocked == ASSUME NEW c, Stocked(c) PROVE Stocked(Aged(c))
<1> SUFFICES ASSUME NEW k \in DOMAIN c
             PROVE  k \in Keys /\ Aged(c)[k] \in Entries /\ Fits(k, Aged(c)[k].val)
  BY DEF Stocked, Aged
<1>1. k \in Keys /\ c[k] \in Entries /\ Fits(k, c[k].val)
  BY DEF Stocked
<1>2. PICK a \in Nat : Aged(c)[k] = [c[k] EXCEPT !.age = a]
  BY <1>1, SMT DEF Aged, Entries
<1> QED
  BY <1>1, <1>2 DEF Entries, Fits

LEMMA UpdatedStocked ==
  ASSUME NEW c, NEW d, Stocked(c), Stocked(d) PROVE Stocked(Updated(c, d))
  BY DEF Stocked, Updated

LEMMA Smallest ==
  ASSUME NEW S \in SUBSET Nat, S # {} PROVE \E m \in S : \A j \in S : m <= j
<1> DEFINE R == OpToRel(<, Nat)
<1>1. \E m \in S : \A j \in S : ~ (<<j, m>> \in R)
  <2> HIDE DEF R
  <2>1. IsWellFoundedOn(R, Nat)
    BY NatLessThanWellFounded DEF R
  <2> QED
    BY <2>1, WFMin
<1>2. \A j, m \in Nat : j < m => <<j, m>> \in R
  BY DEF OpToRel
<1> HIDE DEF R
<1>3. PICK m \in S : \A j \in S : ~ (<<j, m>> \in R)
  BY <1>1
<1>4. \A j \in S : ~ (j < m)
  BY <1>2, <1>3
<1> QED
  BY <1>4, SMT

LEMMA StoredStocked ==
  ASSUME NEW q \in Questions, NEW reply \in Replies[q], Stocked(cache)
  PROVE  Stocked(Stored(reply, cache))
<1> DEFINE at(k) == {i \in DOMAIN reply : reply[i].key = k}
           first(k) == CHOOSE i \in at(k) : \A j \in at(k) : i <= j
           written == {reply[i].key : i \in DOMAIN reply}
           d == [k \in written |-> [val |-> reply[first(k)].val,
                                    ttl |-> reply[first(k)].ttl, age |-> 0]]
<1>1. /\ reply \in Seq([key : Keys, val : Addrs \cup Names, ttl : Nat])
      /\ \A i \in DOMAIN reply : Fits(reply[i].key, reply[i].val)
  BY ResolverAssumption
<1>2. DOMAIN reply = 1 .. Len(reply) /\ Len(reply) \in Nat
  BY <1>1, LenProperties
<1>3. ASSUME NEW k \in written PROVE first(k) \in at(k)
  <2>1. PICK i \in at(k) : TRUE
    OBVIOUS
  <2>2. at(k) \subseteq Nat /\ at(k) # {}
    BY <1>2, <2>1
  <2>3. PICK m \in at(k) : \A j \in at(k) : m <= j
    BY <2>2, Smallest
  <2> QED
    BY <2>3
<1>4. ASSUME NEW k \in written PROVE k \in Keys /\ d[k] \in Entries /\ Fits(k, d[k].val)
  <2>1. first(k) \in DOMAIN reply /\ reply[first(k)].key = k
    BY <1>3, <1>4
  <2> PICK i : i = first(k)
    OBVIOUS
  <2>2. reply[i] \in [key : Keys, val : Addrs \cup Names, ttl : Nat] /\ Fits(k, reply[i].val)
    BY <1>1, <1>2, <2>1, ElementOfSeq
  <2>3. d[k] = [val |-> reply[i].val, ttl |-> reply[i].ttl, age |-> 0]
    OBVIOUS
  <2> HIDE DEF d, first
  <2> QED
    BY <2>1, <2>2, <2>3 DEF Entries
<1>5. Stocked(d)
  BY <1>4 DEF Stocked
<1>6. Stored(reply, cache) = Updated(cache, d)
  BY DEF Stored
<1> HIDE DEF d
<1> QED
  BY <1>5, <1>6, UpdatedStocked

-----------------------------------------------------------------------------
(* The stack *)

\* The frames without the innermost one, and with another in its place.
Dropped(s) == SubSeq(s, 1, Len(s) - 1)

Replaced(s, f) == Dropped(s) \o <<f>>

LEMMA TopDropped ==
  ASSUME NEW s \in Seq(GoodFrames), s # <<>>
  PROVE  /\ Dropped(s) \in Seq(GoodFrames)
         /\ Len(s) \in Nat \ {0} /\ Len(Dropped(s)) = Len(s) - 1
         /\ \A i \in 1 .. Len(s) - 1 : Dropped(s)[i] = s[i]
<1>1. PICK r : r = Dropped(s)
  OBVIOUS
<1>2. Len(s) \in Nat \ {0}
  BY LenProperties, EmptySeq
<1> PICK n \in Nat : n = Len(s) - 1
  BY <1>2, SMT
<1>3. 1 .. n \subseteq 1 .. Len(s)
  BY <1>2, SMT
<1>4. \A i \in 1 .. n : s[i] \in GoodFrames
  BY <1>3, ElementOfSeq
<1>5. /\ r \in Seq(GoodFrames) /\ Len(r) = IF 1 <= n THEN n - 1 + 1 ELSE 0
      /\ \A i \in 1 .. n - 1 + 1 : r[i] = s[1 + i - 1]
  BY <1>1, <1>4, SubSeqProperties DEF Dropped
<1>6. Len(r) = n
  BY <1>5, SMT
<1>7. ASSUME NEW i \in 1 .. n PROVE r[i] = s[i]
  <2>1. i \in 1 .. n - 1 + 1 /\ 1 + i - 1 = i
    BY SMT
  <2> QED
    BY <2>1, <1>5
<1> QED
  BY <1>1, <1>2, <1>5, <1>6, <1>7

LEMMA TopReplaced ==
  ASSUME NEW s \in Seq(GoodFrames), s # <<>>, NEW f \in GoodFrames
  PROVE  /\ Replaced(s, f) \in Seq(GoodFrames) /\ Replaced(s, f) # <<>>
         /\ Len(s) \in Nat \ {0} /\ Len(Replaced(s, f)) = Len(s)
         /\ \A i \in 1 .. Len(s) - 1 : Replaced(s, f)[i] = s[i]
         /\ Replaced(s, f)[Len(s)] = f
<1>1. PICK b, r : b = Dropped(s) /\ r = b \o <<f>> /\ r = Replaced(s, f)
  BY DEF Replaced
<1>2. /\ b \in Seq(GoodFrames) /\ Len(s) \in Nat \ {0} /\ Len(b) = Len(s) - 1
      /\ \A i \in 1 .. Len(s) - 1 : b[i] = s[i]
  BY <1>1, TopDropped
<1> PICK n \in Nat : n = Len(s) - 1
  BY <1>2, SMT
<1>3. <<f>> \in Seq(GoodFrames) /\ Len(<<f>>) = 1 /\ <<f>>[1] = f
  OBVIOUS
<1>4. /\ r \in Seq(GoodFrames) /\ Len(r) = n + 1
      /\ \A i \in 1 .. n + 1 : r[i] = IF i <= n THEN b[i] ELSE <<f>>[i - n]
  BY <1>1, <1>2, <1>3, ConcatProperties
<1>5. n + 1 = Len(s) /\ n + 1 \in 1 .. n + 1 /\ ~(n + 1 <= n) /\ n + 1 - n = 1
  BY <1>2, SMT
<1>6. \A i \in 1 .. n : i \in 1 .. n + 1 /\ i <= n
  BY SMT
<1>7. r[n + 1] = f
  <2>1. r[n + 1] = <<f>>[n + 1 - n]
    BY <1>4, <1>5
  <2> QED
    BY <2>1, <1>3, <1>5
<1>8. \A i \in 1 .. n : r[i] = s[i]
  BY <1>2, <1>4, <1>6
<1>9. r # <<>>
  BY <1>2, <1>4, <1>5, EmptySeq
<1> QED
  BY <1>1, <1>2, <1>4, <1>5, <1>7, <1>8, <1>9

\* The innermost frame.
LEMMA TopGood ==
  ASSUME ResolverInv, NEW t \in Tasks, stack[t] # <<>>
  PROVE  /\ stack[t] \in Seq(GoodFrames) /\ Len(stack[t]) \in Nat \ {0}
         /\ Top(t) \in GoodFrames
  BY ElementOfSeq, LenProperties, EmptySeq, SMT DEF ResolverInv, Top

LEMMA NewStack ==
  ASSUME ResolverInv, NEW t \in Tasks, NEW r \in Seq(GoodFrames),
         stack' = [stack EXCEPT ![t] = r],
         \A i \in 1 .. Len(r) - 1 : Called(r[i], r[i + 1])
  PROVE  /\ stack' \in [Tasks -> Seq(GoodFrames)] /\ Nested'
         /\ stack'[t] = r /\ \A u \in Tasks \ {t} : stack'[u] = stack[u]
<1>1. stack \in [Tasks -> Seq(GoodFrames)] /\ Nested
  BY DEF ResolverInv
<1>2. stack' \in [Tasks -> Seq(GoodFrames)] /\ stack'[t] = r
      /\ \A u \in Tasks \ {t} : stack'[u] = stack[u]
  BY <1>1
<1>3. Nested'
  <2> SUFFICES ASSUME NEW u \in Tasks, NEW i \in 1 .. Len(stack'[u]) - 1
               PROVE  Called(stack'[u][i], stack'[u][i + 1])
    BY DEF Nested, Called
  <2>1. CASE u = t
    BY <2>1, <1>2
  <2>2. CASE u # t
    BY <2>2, <1>1, <1>2 DEF Nested
  <2> QED
    BY <2>1, <2>2
<1> QED
  BY <1>2, <1>3

\* The task that runs waits for no answer; the others stay as they are.
LEMMA OthersWait ==
  ASSUME ResolverInv, NEW t \in Tasks, running = t, UNCHANGED <<query, running>>,
         \A u \in Tasks \ {t} : stack'[u] = stack[u],
         stack'[t] # <<>> => Expects(Top(t)', ret')
  PROVE  Waiting' /\ Ready'
<1>1. Waiting'
  <2> SUFFICES ASSUME NEW u \in Tasks, query'[u] # None
               PROVE  u # running' /\ stack'[u] # <<>> /\ Top(u)'.pc = "asked"
    BY DEF Waiting
  <2>1. u # t /\ stack[u] # <<>> /\ Top(u).pc = "asked"
    BY DEF ResolverInv, Waiting
  <2> QED
    BY <2>1 DEF Top
<1>2. Ready'
  BY DEF Ready, Running, Expects, Gives
<1> QED
  BY <1>1, <1>2

LEMMA RaiseKeeps ==
  ASSUME ResolverInv, NEW t \in Tasks, Running(t), Stocked(cache'), Raise(t)
  PROVE  ResolverInv'
<1>1. /\ stack' = [stack EXCEPT ![t] = <<>>] /\ UNCHANGED <<query, running, ret>>
      /\ outcome' = [outcome EXCEPT ![t] = "exception"] /\ running = t
  BY DEF Raise, Running
<1>2. <<>> \in Seq(GoodFrames) /\ \A i \in 1 .. Len(<<>>) - 1 : Called(<<>>[i], <<>>[i + 1])
  BY SMT
<1>3. /\ stack' \in [Tasks -> Seq(GoodFrames)] /\ Nested'
      /\ stack'[t] = <<>> /\ \A u \in Tasks \ {t} : stack'[u] = stack[u]
  BY <1>1, <1>2, NewStack
<1>4. Waiting' /\ Ready'
  BY <1>1, <1>3, OthersWait
<1>5. outcome' \in [Tasks -> {None, "found", "exception", "cancelled"}]
  BY <1>1 DEF ResolverInv
<1> QED
  BY <1>1, <1>3, <1>4, <1>5 DEF ResolverInv

\* The innermost frame of t becomes g: what called it may have called g, if g
\* is of the same coroutine.
LEMMA Becomes ==
  ASSUME NEW s \in Seq(GoodFrames), s # <<>>, NEW g \in GoodFrames, g.fn = s[Len(s)].fn,
         \A i \in 1 .. Len(s) - 1 : Called(s[i], s[i + 1])
  PROVE  /\ Replaced(s, g) \in Seq(GoodFrames) /\ Replaced(s, g) # <<>>
         /\ Len(Replaced(s, g)) \in Nat \ {0} /\ Replaced(s, g)[Len(Replaced(s, g))] = g
         /\ \A i \in 1 .. Len(Replaced(s, g)) - 1 : Called(Replaced(s, g)[i], Replaced(s, g)[i + 1])
<1>1. /\ Replaced(s, g) \in Seq(GoodFrames) /\ Replaced(s, g) # <<>>
      /\ Len(s) \in Nat \ {0} /\ Len(Replaced(s, g)) = Len(s)
      /\ \A i \in 1 .. Len(s) - 1 : Replaced(s, g)[i] = s[i]
      /\ Replaced(s, g)[Len(s)] = g
  BY TopReplaced
<1>2. ASSUME NEW i \in 1 .. Len(s) - 1 PROVE Called(Replaced(s, g)[i], Replaced(s, g)[i + 1])
  <2>1. Called(s[i], s[i + 1]) /\ Replaced(s, g)[i] = s[i]
    BY <1>1
  <2>2. CASE i + 1 = Len(s)
    <3>1. Called(s[i], g)
      BY <2>1, <2>2 DEF Called
    <3> QED
      BY <2>1, <2>2, <3>1, <1>1
  <2>3. CASE i + 1 # Len(s)
    <3>1. i + 1 \in 1 .. Len(s) - 1
      BY <2>3, <1>1, SMT
    <3> QED
      BY <3>1, <2>1, <1>1
  <2> QED
    BY <2>2, <2>3
<1> QED
  BY <1>1, <1>2

LEMMA TopBecomes ==
  ASSUME ResolverInv, NEW t \in Tasks, stack[t] # <<>>,
         NEW g \in GoodFrames, g.fn = Top(t).fn
  PROVE  \E r \in Seq(GoodFrames) \ {<<>>} :
           /\ r = Replaced(stack[t], g) /\ Len(r) \in Nat \ {0} /\ r[Len(r)] = g
           /\ \A i \in 1 .. Len(r) - 1 : Called(r[i], r[i + 1])
<1>1. /\ stack[t] \in Seq(GoodFrames) /\ g.fn = stack[t][Len(stack[t])].fn
      /\ \A i \in 1 .. Len(stack[t]) - 1 : Called(stack[t][i], stack[t][i + 1])
  BY DEF ResolverInv, Nested, Top
<1>2. /\ Replaced(stack[t], g) \in Seq(GoodFrames) /\ Replaced(stack[t], g) # <<>>
      /\ Len(Replaced(stack[t], g)) \in Nat \ {0}
      /\ Replaced(stack[t], g)[Len(Replaced(stack[t], g))] = g
      /\ \A i \in 1 .. Len(Replaced(stack[t], g)) - 1 :
           Called(Replaced(stack[t], g)[i], Replaced(stack[t], g)[i + 1])
  BY <1>1, Becomes
<1> QED
  BY <1>2

LEMMA FrameAt ==
  ASSUME NEW f \in GoodFrames, NEW pc, MayGo(f, pc)
  PROVE  \E g \in GoodFrames : g = [f EXCEPT !.pc = pc] /\ g.fn = f.fn /\ g.pc = pc
<1>1. /\ [f EXCEPT !.pc = pc] \in Frames
      /\ [f EXCEPT !.pc = pc].fn = f.fn /\ [f EXCEPT !.pc = pc].pc = pc
      /\ [f EXCEPT !.pc = pc].name = f.name /\ [f EXCEPT !.pc = pc].lvl = f.lvl
  BY DEF GoodFrames, Frames, MayGo
<1>2. [f EXCEPT !.pc = pc] \in GoodFrames
  BY <1>1 DEF GoodFrames, MayGo
<1> QED
  BY <1>1, <1>2

LEMMA CallKeeps ==
  ASSUME ResolverInv, NEW t \in Tasks, Running(t), Stocked(cache'),
         NEW pc, NEW f \in GoodFrames, f.pc = "start", Call(t, f, pc),
         MayGo(Top(t), pc), Calls(Top(t).fn, pc, f.fn)
  PROVE  ResolverInv'
<1>1. running = t /\ stack[t] # <<>> /\ Top(t) \in GoodFrames
  BY TopGood DEF Running
<1>2. PICK g \in GoodFrames : g = [Top(t) EXCEPT !.pc = pc] /\ g.fn = Top(t).fn /\ g.pc = pc
  BY <1>1, FrameAt
<1>3. CASE Raise(t)
  BY <1>3, RaiseKeeps
<1>4. CASE stack' = [stack EXCEPT ![t] = Append(At(t, pc), f)]
           /\ UNCHANGED <<query, running, ret, outcome>>
  <2>1. PICK b \in Seq(GoodFrames) \ {<<>>} :
          /\ b = Replaced(stack[t], g) /\ Len(b) \in Nat \ {0} /\ b[Len(b)] = g
          /\ \A i \in 1 .. Len(b) - 1 : Called(b[i], b[i + 1])
    BY <1>1, <1>2, TopBecomes
  <2>2. b = At(t, pc)
    BY <1>2, <2>1 DEF At, Below, Replaced, Dropped
  <2>3. PICK r : r = Append(b, f)
    OBVIOUS
  <2>4. /\ r \in Seq(GoodFrames) /\ r # <<>> /\ Len(r) = Len(b) + 1
        /\ \A i \in 1 .. Len(b) : r[i] = b[i]
        /\ r[Len(b) + 1] = f
    BY <2>3, AppendProperties
  <2>5. ASSUME NEW i \in 1 .. Len(r) - 1 PROVE Called(r[i], r[i + 1])
    <3>1. i \in 1 .. Len(b)
      BY <2>1, <2>4, SMT
    <3>2. CASE i = Len(b)
      <4>1. r[i] = g /\ r[i + 1] = f
        BY <3>1, <3>2, <2>1, <2>4
      <4>2. Called(g, f)
        BY <1>2 DEF Called
      <4> QED
        BY <4>1, <4>2
    <3>3. CASE i # Len(b)
      <4>1. i \in 1 .. Len(b) - 1 /\ i + 1 \in 1 .. Len(b)
        BY <3>1, <3>3, <2>1, SMT
      <4>2. r[i] = b[i] /\ r[i + 1] = b[i + 1]
        BY <3>1, <4>1, <2>4
      <4> QED
        BY <4>1, <4>2, <2>1
    <3> QED
      BY <3>2, <3>3
  <2>6. /\ stack' \in [Tasks -> Seq(GoodFrames)] /\ Nested'
        /\ stack'[t] = r /\ \A u \in Tasks \ {t} : stack'[u] = stack[u]
    BY <1>4, <2>2, <2>3, <2>4, <2>5, NewStack
  <2>7. Top(t)' = f
    BY <2>4, <2>6 DEF Top
  <2>8. Waiting' /\ Ready'
    BY <1>1, <1>4, <2>6, <2>7, OthersWait DEF Expects
  <2> QED
    BY <1>4, <2>6, <2>8 DEF ResolverInv
<1> QED
  BY <1>3, <1>4 DEF Call

LEMMA GotoKeeps ==
  ASSUME ResolverInv, NEW t \in Tasks, Running(t), Stocked(cache'), Goto(t, "asked"),
         MayGo(Top(t), "asked")
  PROVE  ResolverInv'
<1>1. running = t /\ stack[t] # <<>> /\ Top(t) \in GoodFrames
  BY TopGood DEF Running
<1>2. PICK g \in GoodFrames :
        g = [Top(t) EXCEPT !.pc = "asked"] /\ g.fn = Top(t).fn /\ g.pc = "asked"
  BY <1>1, FrameAt
<1>3. PICK r \in Seq(GoodFrames) \ {<<>>} :
        /\ r = Replaced(stack[t], g) /\ Len(r) \in Nat \ {0} /\ r[Len(r)] = g
        /\ \A i \in 1 .. Len(r) - 1 : Called(r[i], r[i + 1])
  BY <1>1, <1>2, TopBecomes
<1>4. r = At(t, "asked")
  BY <1>2, <1>3 DEF At, Below, Replaced, Dropped
<1>5. stack' = [stack EXCEPT ![t] = r] /\ UNCHANGED <<query, running, ret, outcome>>
  BY <1>4 DEF Goto
<1>6. /\ stack' \in [Tasks -> Seq(GoodFrames)] /\ Nested'
      /\ stack'[t] = r /\ \A u \in Tasks \ {t} : stack'[u] = stack[u]
  BY <1>3, <1>5, NewStack
<1>7. Top(t)' = g
  BY <1>3, <1>6 DEF Top
<1>8. Waiting' /\ Ready'
  BY <1>1, <1>5, <1>6, <1>7, <1>2, OthersWait DEF Expects
<1> QED
  BY <1>5, <1>6, <1>8 DEF ResolverInv

LEMMA AskKeeps ==
  ASSUME ResolverInv, NEW t \in Tasks, Running(t), Stocked(cache'),
         NEW q \in Questions, Ask(t, q),
         MayGo(Top(t), "asked")
  PROVE  ResolverInv'
<1>1. running = t /\ stack[t] # <<>> /\ Top(t) \in GoodFrames
  BY TopGood DEF Running
<1>2. PICK g \in GoodFrames :
        g = [Top(t) EXCEPT !.pc = "asked"] /\ g.fn = Top(t).fn /\ g.pc = "asked"
  BY <1>1, FrameAt
<1>3. PICK r \in Seq(GoodFrames) \ {<<>>} :
        /\ r = Replaced(stack[t], g) /\ Len(r) \in Nat \ {0} /\ r[Len(r)] = g
        /\ \A i \in 1 .. Len(r) - 1 : Called(r[i], r[i + 1])
  BY <1>1, <1>2, TopBecomes
<1>4. r = At(t, "asked")
  BY <1>2, <1>3 DEF At, Below, Replaced, Dropped
<1>5. /\ stack' = [stack EXCEPT ![t] = r] /\ query' = [query EXCEPT ![t] = q]
      /\ running' = None /\ ret' = None /\ UNCHANGED outcome
  BY <1>4 DEF Ask
<1>6. /\ stack' \in [Tasks -> Seq(GoodFrames)] /\ Nested'
      /\ stack'[t] = r /\ \A u \in Tasks \ {t} : stack'[u] = stack[u]
  BY <1>3, <1>5, NewStack
<1>7. Top(t)' = g
  BY <1>3, <1>6 DEF Top
<1>8. Waiting'
  <2> SUFFICES ASSUME NEW u \in Tasks, query'[u] # None
               PROVE  u # running' /\ stack'[u] # <<>> /\ Top(u)'.pc = "asked"
    BY DEF Waiting
  <2>1. u # running'
    BY <1>5, ResolverAssumption
  <2>2. CASE u = t
    BY <2>1, <2>2, <1>3, <1>6, <1>7, <1>2
  <2>3. CASE u # t
    <3>1. stack[u] # <<>> /\ Top(u).pc = "asked"
      BY <2>3, <1>5 DEF ResolverInv, Waiting
    <3> QED
      BY <2>1, <2>3, <3>1, <1>6 DEF Top
  <2> QED
    BY <2>2, <2>3
<1>9. Ready'
  BY <1>5, ResolverAssumption DEF Ready, Running
<1>10. query' \in [Tasks -> Questions \cup {None}]
  BY <1>5 DEF ResolverInv
<1> QED
  BY <1>5, <1>6, <1>8, <1>9, <1>10 DEF ResolverInv

LEMMA ReturnKeeps ==
  ASSUME ResolverInv, NEW t \in Tasks, Running(t), Stocked(cache'),
         NEW v, Gives(Top(t), v), Return(t, v)
  PROVE  ResolverInv'
<1>1. PICK s : s = stack[t]
  OBVIOUS
<1>2. running = t /\ s # <<>> /\ s \in Seq(GoodFrames) /\ Top(t) = s[Len(s)]
  BY <1>1 DEF Running, ResolverInv, Top
<1>3. PICK r : r = Below(t) /\ r = Dropped(s)
  BY <1>1 DEF Below, Dropped
<1>4. /\ r \in Seq(GoodFrames) /\ Len(s) \in Nat \ {0} /\ Len(r) = Len(s) - 1
      /\ \A i \in 1 .. Len(s) - 1 : r[i] = s[i]
  BY <1>2, <1>3, TopDropped
<1>5. \A i \in 1 .. Len(s) - 1 : Called(s[i], s[i + 1])
  BY <1>1 DEF ResolverInv, Nested
<1>6. ASSUME NEW i \in 1 .. Len(r) - 1 PROVE Called(r[i], r[i + 1])
  <2>1. i \in 1 .. Len(s) - 1 /\ i + 1 \in 1 .. Len(s) - 1
    BY <1>4, SMT
  <2> QED
    BY <2>1, <1>4, <1>5
<1>7. /\ stack' = [stack EXCEPT ![t] = r] /\ ret' = v /\ UNCHANGED <<query, running>>
      /\ \/ outcome' = [outcome EXCEPT ![t] = "found"]
         \/ outcome' = [outcome EXCEPT ![t] = outcome[t]]
  BY <1>3 DEF Return
<1>8. /\ stack' \in [Tasks -> Seq(GoodFrames)] /\ Nested'
      /\ stack'[t] = r /\ \A u \in Tasks \ {t} : stack'[u] = stack[u]
  BY <1>4, <1>6, <1>7, NewStack
<1>9. ASSUME r # <<>> PROVE Expects(Top(t)', ret')
  <2>1. Len(r) # 0
    BY <1>4, <1>9, EmptySeq
  <2>2. Len(r) \in 1 .. Len(s) - 1 /\ Len(r) + 1 = Len(s)
    <3>1. PICK m, n : m = Len(r) /\ n = Len(s)
      OBVIOUS
    <3>2. n \in Nat \ {0} /\ m = n - 1 /\ m # 0
      BY <3>1, <2>1, <1>4
    <3>3. m \in 1 .. n - 1 /\ m + 1 = n
      BY <3>2, SMT
    <3> QED
      BY <3>1, <3>3
  <2>3. Top(t)' = s[Len(r)] /\ Called(s[Len(r)], Top(t))
    BY <2>2, <1>2, <1>4, <1>5, <1>8 DEF Top
  <2> QED
    BY <2>3, <1>7 DEF Called, Calls, Expects, Gives
<1>10. Waiting' /\ Ready'
  BY <1>2, <1>7, <1>8, <1>9, OthersWait
<1>11. ret' \in Addrs \cup Names \cup {None}
  BY <1>7 DEF Gives
<1>12. outcome' \in [Tasks -> {None, "found", "exception", "cancelled"}]
  BY <1>7 DEF ResolverInv
<1> QED
  BY <1>7, <1>8, <1>10, <1>11, <1>12 DEF ResolverInv

-----------------------------------------------------------------------------
(* The steps of a task *)

\* What a cache entry holds.
LEMMA LiveFits ==
  ASSUME Stocked(cache), NEW n, NEW T, Live(<<n, T>>)
  PROVE  Value(<<n, T>>) \in (IF T = "A" THEN Addrs ELSE Names)
  BY DEF Stocked, Live, Value, Fits

LEMMA KeepCache == ASSUME ResolverInv, UNCHANGED cache PROVE Stocked(cache')
  BY DEF ResolverInv

LEMMA CacheStocked == ASSUME ResolverInv PROVE Stocked(cache) /\ \A K : Stocked(LookedUp(K))
  BY LookedUpStocked DEF ResolverInv

LEMMA KnownNsTyped ==
  ASSUME ResolverInv, NEW n \in Names PROVE KnownNs(n) \in Names \cup {None}
<1>1. Stocked(cache)
  BY CacheStocked
<1>2. NsFromSoa(n) \in Names \cup {None}
  <2>1. PICK s : s = Suffixes[n]
    OBVIOUS
  <2>2. PICK zones : zones = {i \in DOMAIN s : Live(<<s[i], "SOA">>) /\ Live(<<s[i], "NS">>)}
    OBVIOUS
  <2>3. CASE zones = {}
    BY <2>1, <2>2, <2>3 DEF NsFromSoa
  <2>4. CASE zones # {}
    <3>1. s \in Seq(Names) /\ DOMAIN s \subseteq Nat
      BY <2>1, ResolverAssumption, LenProperties, SMT
    <3>2. zones \in SUBSET Nat
      BY <2>2, <3>1
    <3>3. PICK m \in zones : \A j \in zones : m <= j
      BY <2>4, <3>2, Smallest
    <3>4. PICK i : i = (CHOOSE x \in zones : \A j \in zones : x <= j)
      OBVIOUS
    <3>5. i \in zones
      BY <3>3, <3>4
    <3>6. NsFromSoa(n) = Value(<<s[i], "NS">>)
      BY <2>1, <2>2, <2>4, <3>4 DEF NsFromSoa
    <3>7. Live(<<s[i], "NS">>)
      BY <2>2, <3>5
    <3> QED
      BY <1>1, <3>6, <3>7, LiveFits
  <2> QED
    BY <2>3, <2>4
<1>3. Live(<<n, "NS">>) => Value(<<n, "NS">>) \in Names
  BY <1>1, LiveFits
<1> QED
  BY <1>2, <1>3 DEF KnownNs

LEMMA HitAddressKeeps ==
  ASSUME ResolverInv, NEW t \in Tasks, HitAddress(t) PROVE ResolverInv'
<1>1. /\ Running(t) /\ Reads(Top(t)) /\ Live(<<Top(t).name, "A">>)
      /\ Return(t, Value(<<Top(t).name, "A">>)) /\ UNCHANGED cache
  BY DEF HitAddress
<1>2. Value(<<Top(t).name, "A">>) \in Addrs
  BY <1>1, CacheStocked, LiveFits
<1>3. Gives(Top(t), Value(<<Top(t).name, "A">>))
  BY <1>1, <1>2 DEF Gives, Reads
<1> QED
  BY <1>1, <1>3, KeepCache, ReturnKeeps

LEMMA HitAliasKeeps ==
  ASSUME ResolverInv, NEW t \in Tasks, HitAlias(t) PROVE ResolverInv'
<1>1. PICK f, g : /\ f = Top(t) /\ g = [f EXCEPT !.name = Value(<<f.name, "CNAME">>),
                                                !.fresh = FALSE, !.pc = "start"]
                  /\ Running(t) /\ Reads(f) /\ Live(<<f.name, "CNAME">>)
                  /\ cache' = LookedUp({<<f.name, "A">>}) /\ Call(t, g, "pass")
  BY DEF HitAlias
<1>2. f \in GoodFrames
  BY <1>1, TopGood DEF Running
<1>3. Value(<<f.name, "CNAME">>) \in Names
  BY <1>1, CacheStocked, LiveFits
<1>4. g \in Frames /\ g.pc = "start" /\ g.fn = f.fn /\ f.fn # "ns"
  BY <1>1, <1>2, <1>3 DEF GoodFrames, Frames, Reads
<1>5. g \in GoodFrames /\ MayGo(Top(t), "pass") /\ Calls(Top(t).fn, "pass", g.fn)
  BY <1>1, <1>4 DEF GoodFrames, MayGo, Calls
<1>6. Stocked(cache')
  BY <1>1, CacheStocked
<1> QED
  BY <1>1, <1>4, <1>5, <1>6, CallKeeps

\* A frame that starts.
LEMMA NewFrames ==
  ASSUME NEW n \in Names
  PROVE  /\ \A fresh \in BOOLEAN : /\ NameFrame(n, fresh) \in GoodFrames
                                   /\ NameFrame(n, fresh).fn = "name"
                                   /\ NameFrame(n, fresh).pc = "start"
         /\ StubFrame(n) \in GoodFrames
         /\ \A lvl \in 0 .. Len(Suffixes[n]) + 1 : /\ NsFrame(n, lvl) \in GoodFrames
                                                  /\ NsFrame(n, lvl).fn = "ns"
                                                  /\ NsFrame(n, lvl).pc = "start"
<1>1. Len(Suffixes[n]) \in Nat
  BY ResolverAssumption, LenProperties
<1> QED
  BY <1>1, SMT DEF GoodFrames, Frames, NameFrame, StubFrame, NsFrame

LEMMA MissNameKeeps ==
  ASSUME ResolverInv, NEW t \in Tasks, MissName(t) PROVE ResolverInv'
<1>1. /\ Running(t) /\ Top(t).fn = "name" /\ Stocked(cache')
      /\ Call(t, NsFrame(Top(t).name, 0), "delegated")
  BY CacheStocked DEF MissName
<1>2. Top(t) \in GoodFrames /\ Top(t).name \in Names
  BY <1>1, TopGood DEF Running, GoodFrames, Frames
<1>3. 0 \in 0 .. Len(Suffixes[Top(t).name]) + 1
  BY <1>2, ResolverAssumption, LenProperties
<1>4. /\ NsFrame(Top(t).name, 0) \in GoodFrames
      /\ NsFrame(Top(t).name, 0).fn = "ns" /\ NsFrame(Top(t).name, 0).pc = "start"
  BY <1>2, <1>3, NewFrames
<1>5. /\ MayGo(Top(t), "delegated")
      /\ Calls(Top(t).fn, "delegated", NsFrame(Top(t).name, 0).fn)
  BY <1>1, <1>4 DEF MayGo, Calls
<1> QED
  BY <1>1, <1>4, <1>5, CallKeeps

LEMMA MissStubKeeps ==
  ASSUME ResolverInv, NEW t \in Tasks, MissStub(t) PROVE ResolverInv'
<1>1. /\ Running(t) /\ Top(t).fn = "stub" /\ Stocked(cache')
      /\ Ask(t, <<StubAddr, Top(t).name, "A">>)
  BY CacheStocked DEF MissStub
<1>2. Top(t).name \in Names
  BY <1>1, TopGood DEF Running, GoodFrames, Frames
<1>3. <<StubAddr, Top(t).name, "A">> \in Questions /\ MayGo(Top(t), "asked")
  BY <1>1, <1>2, ResolverAssumption DEF Questions, MayGo
<1> QED
  BY <1>1, <1>3, AskKeeps

LEMMA HasServerKeeps ==
  ASSUME ResolverInv, NEW t \in Tasks, HasServer(t) PROVE ResolverInv'
<1>1. /\ Running(t) /\ Top(t).fn = "name" /\ Top(t).pc = "delegated" /\ ret # None
      /\ Call(t, NameFrame(ret, FALSE), "ask") /\ UNCHANGED cache
  BY DEF HasServer
<1>2. ret \in Names
  BY <1>1 DEF ResolverInv, Ready, Expects
<1>3. /\ NameFrame(ret, FALSE) \in GoodFrames /\ NameFrame(ret, FALSE).fn = "name"
      /\ NameFrame(ret, FALSE).pc = "start"
  BY <1>2, NewFrames
<1>4. MayGo(Top(t), "ask") /\ Calls(Top(t).fn, "ask", NameFrame(ret, FALSE).fn)
  BY <1>1, <1>3 DEF MayGo, Calls
<1> QED
  BY <1>1, <1>3, <1>4, KeepCache, CallKeeps

LEMMA HasNoServerKeeps ==
  ASSUME ResolverInv, NEW t \in Tasks, HasNoServer(t) PROVE ResolverInv'
<1>1. Running(t) /\ Top(t).fn = "name" /\ Goto(t, "asked") /\ UNCHANGED cache
  BY DEF HasNoServer
<1>2. MayGo(Top(t), "asked")
  BY <1>1 DEF MayGo
<1> QED
  BY <1>1, <1>2, KeepCache, GotoKeeps

LEMMA AskNameKeeps ==
  ASSUME ResolverInv, NEW t \in Tasks, AskName(t) PROVE ResolverInv'
<1>1. /\ Running(t) /\ Top(t).fn = "name" /\ Top(t).pc = "ask"
      /\ Ask(t, <<ret, Top(t).name, "A">>) /\ UNCHANGED cache
  BY DEF AskName
<1>2. Top(t).name \in Names
  BY <1>1, TopGood DEF Running, GoodFrames, Frames
<1>3. ret \in Addrs
  BY <1>1 DEF ResolverInv, Ready, Expects
<1>4. <<ret, Top(t).name, "A">> \in Questions /\ MayGo(Top(t), "asked")
  BY <1>1, <1>2, <1>3 DEF Questions, MayGo
<1> QED
  BY <1>1, <1>4, KeepCache, AskKeeps

LEMMA NotFoundKeeps ==
  ASSUME ResolverInv, NEW t \in Tasks, NotFound(t) PROVE ResolverInv'
<1>1. Running(t) /\ Raise(t) /\ Stocked(cache')
  BY CacheStocked DEF NotFound
<1> QED
  BY <1>1, RaiseKeeps

LEMMA PassKeeps ==
  ASSUME ResolverInv, NEW t \in Tasks, Pass(t) PROVE ResolverInv'
<1>1. Running(t) /\ Top(t).pc = "pass" /\ Return(t, ret) /\ UNCHANGED cache
  BY DEF Pass
<1>2. Gives(Top(t), ret)
  BY <1>1 DEF ResolverInv, Ready, Expects
<1> QED
  BY <1>1, <1>2, KeepCache, ReturnKeeps

LEMMA NsKnownKeeps ==
  ASSUME ResolverInv, NEW t \in Tasks, NsKnown(t) PROVE ResolverInv'
<1>1. /\ Running(t) /\ Top(t).fn = "ns" /\ Stocked(cache')
      /\ Return(t, KnownNs(Top(t).name))
  BY CacheStocked DEF NsKnown, StartsNs
<1>2. Top(t).name \in Names
  BY <1>1, TopGood DEF Running, GoodFrames, Frames
<1>3. Gives(Top(t), KnownNs(Top(t).name))
  BY <1>1, <1>2, KnownNsTyped DEF Gives
<1> QED
  BY <1>1, <1>3, ReturnKeeps

LEMMA NsGivesUpKeeps ==
  ASSUME ResolverInv, NEW t \in Tasks, NsGivesUp(t) PROVE ResolverInv'
<1>1. Running(t) /\ Top(t).fn = "ns" /\ Stocked(cache') /\ Return(t, None)
  BY CacheStocked DEF NsGivesUp, StartsNs
<1>2. Gives(Top(t), None)
  BY <1>1 DEF Gives
<1> QED
  BY <1>1, <1>2, ReturnKeeps

\* A round that can ask is one of the first Len(Suffixes[n]) + 1.
LEMMA RoundInRange ==
  ASSUME ResolverInv, NEW t \in Tasks, StartsNs(t), NEW i, NsRound(t, i)
  PROVE  /\ Running(t) /\ Top(t) \in GoodFrames /\ Top(t).name \in Names
         /\ Top(t).fn = "ns" /\ Stocked(cache')
         /\ MayGo(Top(t), "ask") /\ MayGo(Top(t), "asked")
         /\ Suffixes[Top(t).name] \in Seq(Names)
         /\ i < Len(Suffixes[Top(t).name]) =>
              Live(<<Suffixes[Top(t).name][i + 1], "NS">>)
<1>1. /\ Running(t) /\ Top(t).fn = "ns" /\ Stocked(cache')
      /\ i \in Rounds(Top(t).name, Top(t).lvl)
      /\ i < Len(Suffixes[Top(t).name]) => Live(<<Suffixes[Top(t).name][i + 1], "NS">>)
  BY CacheStocked DEF StartsNs, NsRound, Askable
<1>2. Top(t) \in GoodFrames /\ Top(t).name \in Names /\ Top(t).lvl \in Nat
  BY <1>1, TopGood DEF Running, GoodFrames, Frames
<1>3. Suffixes[Top(t).name] \in Seq(Names) /\ Len(Suffixes[Top(t).name]) \in Nat
  BY <1>2, ResolverAssumption, LenProperties
<1>4. Top(t).lvl <= Len(Suffixes[Top(t).name])
  <2>1. PICK m, l : m = Len(Suffixes[Top(t).name]) /\ l = Top(t).lvl
    OBVIOUS
  <2>2. i \in 0 .. m - l /\ m \in Nat /\ l \in Nat
    BY <2>1, <1>1, <1>2, <1>3 DEF Rounds
  <2>3. l <= m
    BY <2>2, SMT
  <2> QED
    BY <2>1, <2>3
<1> QED
  BY <1>1, <1>2, <1>3, <1>4 DEF MayGo

LEMMA NsAskRootKeeps ==
  ASSUME ResolverInv, NEW t \in Tasks, NsAskRoot(t) PROVE ResolverInv'
<1>1. /\ StartsNs(t) /\ NsRound(t, Len(Suffixes[Top(t).name]))
      /\ Ask(t, <<RootAddr, Top(t).name, "NS">>)
  BY DEF NsAskRoot
<1>2. /\ Running(t) /\ Top(t).name \in Names /\ Stocked(cache') /\ MayGo(Top(t), "asked")
  BY <1>1, RoundInRange
<1>3. <<RootAddr, Top(t).name, "NS">> \in Questions
  BY <1>2, ResolverAssumption DEF Questions
<1> QED
  BY <1>1, <1>2, <1>3, AskKeeps

LEMMA NsFindKeeps ==
  ASSUME ResolverInv, NEW t \in Tasks, NsFind(t) PROVE ResolverInv'
<1>1. PICK i, v :
        /\ StartsNs(t) /\ i \in 0 .. Len(Suffixes[Top(t).name]) - 1 /\ NsRound(t, i)
        /\ v = Value(<<Suffixes[Top(t).name][i + 1], "NS">>)
        /\ Call(t, NameFrame(v, FALSE), "ask")
  BY DEF NsFind
<1>2. /\ Running(t) /\ Top(t).fn = "ns" /\ Stocked(cache') /\ MayGo(Top(t), "ask")
      /\ Suffixes[Top(t).name] \in Seq(Names)
      /\ i < Len(Suffixes[Top(t).name]) =>
           Live(<<Suffixes[Top(t).name][i + 1], "NS">>)
  BY <1>1, RoundInRange
<1>3. i < Len(Suffixes[Top(t).name])
  BY <1>1, <1>2, LenProperties, SMT
<1>4. v \in Names
  BY <1>1, <1>2, <1>3, CacheStocked, LiveFits
<1>5. /\ NameFrame(v, FALSE) \in GoodFrames /\ NameFrame(v, FALSE).fn = "name"
      /\ NameFrame(v, FALSE).pc = "start"
  BY <1>4, NewFrames
<1>6. Calls(Top(t).fn, "ask", NameFrame(v, FALSE).fn)
  BY <1>5 DEF Calls
<1> QED
  BY <1>1, <1>2, <1>5, <1>6, CallKeeps

LEMMA NsAskKeeps ==
  ASSUME ResolverInv, NEW t \in Tasks, NsAsk(t) PROVE ResolverInv'
<1>1. /\ Running(t) /\ Top(t).fn = "ns" /\ Top(t).pc = "ask"
      /\ Ask(t, <<ret, Top(t).name, "NS">>) /\ UNCHANGED cache
  BY DEF NsAsk
<1>2. Top(t).name \in Names /\ Top(t).lvl <= Len(Suffixes[Top(t).name])
  BY <1>1, TopGood DEF Running, GoodFrames, Frames
<1>3. ret \in Addrs
  BY <1>1 DEF ResolverInv, Ready, Expects
<1>4. <<ret, Top(t).name, "NS">> \in Questions /\ MayGo(Top(t), "asked")
  BY <1>1, <1>2, <1>3 DEF Questions, MayGo
<1> QED
  BY <1>1, <1>4, KeepCache, AskKeeps

LEMMA NsAgainKeeps ==
  ASSUME ResolverInv, NEW t \in Tasks, NsAgain(t) PROVE ResolverInv'
<1>1. PICK n, l : /\ n = Top(t).name /\ l = Top(t).lvl
                  /\ Running(t) /\ Top(t).fn = "ns" /\ Top(t).pc = "asked"
                  /\ Call(t, NsFrame(n, l + 1), "pass") /\ UNCHANGED cache
  BY DEF NsAgain
<1>2. n \in Names /\ l \in Nat /\ l <= Len(Suffixes[n])
  BY <1>1, TopGood DEF Running, GoodFrames, Frames
<1>3. l + 1 \in 0 .. Len(Suffixes[n]) + 1
  <2>1. Len(Suffixes[n]) \in Nat
    BY <1>2, ResolverAssumption, LenProperties
  <2> QED
    BY <1>2, <2>1, SMT
<1>4. /\ NsFrame(n, l + 1) \in GoodFrames /\ NsFrame(n, l + 1).fn = "ns"
      /\ NsFrame(n, l + 1).pc = "start"
  BY <1>2, <1>3, NewFrames
<1>5. MayGo(Top(t), "pass") /\ Calls(Top(t).fn, "pass", NsFrame(n, l + 1).fn)
  BY <1>1, <1>4 DEF MayGo, Calls
<1> QED
  BY <1>1, <1>4, <1>5, KeepCache, CallKeeps

\* An answer ends the wait of t, whose innermost frame is at "asked".
LEMMA AnsweredKeeps ==
  ASSUME ResolverInv, NEW t \in Tasks, Answered(t) PROVE ResolverInv'
<1>1. /\ running = None /\ query[t] # None /\ query[t] \in Questions
      /\ query' = [query EXCEPT ![t] = None] /\ running' = t
      /\ UNCHANGED <<stack, ret, outcome>>
  BY DEF Answered, ResolverInv
<1>2. Stocked(cache')
  BY <1>1, CacheStocked, StoredStocked DEF Answered
<1>3. Waiting'
  BY <1>1 DEF ResolverInv, Waiting, Top
<1>4. Ready'
  BY <1>1 DEF ResolverInv, Waiting, Ready, Running, Top, Expects
<1>5. Nested' /\ query' \in [Tasks -> Questions \cup {None}]
  BY <1>1 DEF ResolverInv, Nested
<1> QED
  BY <1>1, <1>2, <1>3, <1>4, <1>5 DEF ResolverInv

LEMMA UnansweredKeeps ==
  ASSUME ResolverInv, NEW t \in Tasks, Unanswered(t) PROVE ResolverInv'
<1>1. /\ running = None /\ query[t] # None
      /\ query' = [query EXCEPT ![t] = None] /\ stack' = [stack EXCEPT ![t] = <<>>]
      /\ running' = t /\ UNCHANGED <<cache, ret>>
      /\ \E e \in Failures : outcome' = [outcome EXCEPT ![t] = e]
  BY DEF Unanswered
<1>2. <<>> \in Seq(GoodFrames) /\ \A i \in 1 .. Len(<<>>) - 1 : Called(<<>>[i], <<>>[i + 1])
  BY SMT
<1>3. /\ stack' \in [Tasks -> Seq(GoodFrames)] /\ Nested'
      /\ stack'[t] = <<>> /\ \A u \in Tasks \ {t} : stack'[u] = stack[u]
  BY <1>1, <1>2, NewStack
<1>4. Waiting'
  BY <1>1, <1>3 DEF ResolverInv, Waiting, Top
<1>5. Ready'
  BY <1>1, <1>3 DEF Ready, Running
<1>6. outcome' \in [Tasks -> {None, "found", "exception", "cancelled"}]
  BY <1>1, ResolverAssumption DEF ResolverInv
<1>7. query' \in [Tasks -> Questions \cup {None}]
  BY <1>1 DEF ResolverInv
<1> QED
  BY <1>1, <1>3, <1>4, <1>5, <1>6, <1>7, KeepCache DEF ResolverInv

LEMMA ResolverStepKeeps ==
  ASSUME ResolverInv, NEW t \in Tasks, ResolverStep(t) PROVE ResolverInv'
BY HitAddressKeeps, HitAliasKeeps, MissNameKeeps, MissStubKeeps, HasServerKeeps,
   HasNoServerKeeps, AskNameKeeps, NotFoundKeeps, PassKeeps, NsKnownKeeps,
   NsAskRootKeeps, NsFindKeeps, NsAskKeeps, NsAgainKeeps, NsGivesUpKeeps,
   AnsweredKeeps, UnansweredKeeps
   DEF ResolverStep

-----------------------------------------------------------------------------
(* The server *)

\* A task that runs or waits serves a request.
Busy == \A t \in Tasks : t = running \/ query[t] # None => job[t] # None

ServerInv ==
  /\ ResolverInv
  /\ Stocked(saved)
  /\ recursive \in BOOLEAN
  /\ job \in [Tasks -> Jobs \cup {None}]
  /\ recent \subseteq Domains
  /\ slow \subseteq Tasks
  /\ Busy

\* A step of t is taken by a task that runs or waits, and touches no other's
\* question.
LEMMA StepOwns ==
  ASSUME ResolverInv, NEW t \in Tasks, ResolverStep(t)
  PROVE  /\ running = t \/ query[t] # None
         /\ running' \in {t, None}
         /\ \A u \in Tasks \ {t} : query'[u] = query[u]
<1>1. CASE UNCHANGED <<query, running>> /\ Running(t)
  BY <1>1 DEF Running
<1>2. CASE \E q : Ask(t, q) /\ Running(t)
  BY <1>2 DEF Ask, Running, ResolverInv
<1>3. CASE Answered(t) \/ Unanswered(t)
  BY <1>3 DEF Answered, Unanswered, ResolverInv
<1>4. ASSUME NEW f, NEW pc, NEW v, Raise(t) \/ Call(t, f, pc) \/ Return(t, v) \/ Goto(t, pc)
      PROVE  UNCHANGED <<query, running>>
  BY <1>4 DEF Raise, Call, Return, Goto
<1>5. HitAddress(t) => UNCHANGED <<query, running>> /\ Running(t)
  BY <1>4 DEF HitAddress
<1>6. HitAlias(t) => UNCHANGED <<query, running>> /\ Running(t)
  BY <1>4 DEF HitAlias
<1>7. MissName(t) => UNCHANGED <<query, running>> /\ Running(t)
  BY <1>4 DEF MissName
<1>8. HasServer(t) => UNCHANGED <<query, running>> /\ Running(t)
  BY <1>4 DEF HasServer
<1>9. HasNoServer(t) => UNCHANGED <<query, running>> /\ Running(t)
  BY <1>4 DEF HasNoServer
<1>10. NotFound(t) => UNCHANGED <<query, running>> /\ Running(t)
  BY <1>4 DEF NotFound
<1>11. Pass(t) => UNCHANGED <<query, running>> /\ Running(t)
  BY <1>4 DEF Pass
<1>12. NsKnown(t) \/ NsGivesUp(t) => UNCHANGED <<query, running>> /\ Running(t)
  BY <1>4 DEF NsKnown, NsGivesUp, StartsNs
<1>13. NsFind(t) => UNCHANGED <<query, running>> /\ Running(t)
  BY <1>4 DEF NsFind, StartsNs
<1>14. NsAgain(t) => UNCHANGED <<query, running>> /\ Running(t)
  BY <1>4 DEF NsAgain
<1>15. MissStub(t) \/ AskName(t) \/ NsAskRoot(t) \/ NsAsk(t) => \E q : Ask(t, q) /\ Running(t)
  BY DEF MissStub, AskName, NsAskRoot, NsAsk, StartsNs
<1> QED
  BY <1>1, <1>2, <1>3, <1>5, <1>6, <1>7, <1>8, <1>9, <1>10, <1>11, <1>12, <1>13,
     <1>14, <1>15 DEF ResolverStep

LEMMA ResolveKeeps == ASSUME ServerInv, NEW t \in Tasks, Resolve(t) PROVE ServerInv'
<1>1. /\ ResolverStep(t) /\ out' = None
      /\ UNCHANGED <<recursive, job, recent, slow, saved>>
  BY DEF Resolve
<1>2. ResolverInv'
  BY <1>1, ResolverStepKeeps DEF ServerInv
<1>3. Busy'
  BY <1>1, StepOwns, ResolverAssumption DEF ServerInv, Busy
<1> QED
  BY <1>1, <1>2, <1>3 DEF ServerInv

\* A request that is over.
LEMMA FinishKeeps ==
  ASSUME ServerInv, NEW t \in Tasks, Resolved(t), Finish(t), Stocked(cache')
  PROVE  ServerInv'
<1>1. /\ running = t /\ stack[t] = <<>> /\ running' = None /\ ret' = None
      /\ job' = [job EXCEPT ![t] = None] /\ slow' = slow \ {t}
      /\ outcome' = [outcome EXCEPT ![t] = None]
      /\ UNCHANGED <<stack, query, recursive, recent, saved>>
  BY DEF Resolved, Finish
<1>2. query[t] = None
  BY <1>1 DEF ServerInv, ResolverInv, Waiting
<1>3. Waiting' /\ Ready'
  BY <1>1, ResolverAssumption DEF ServerInv, ResolverInv, Waiting, Ready, Running, Top
<1>4. ResolverInv'
  BY <1>1, <1>3 DEF ServerInv, ResolverInv, Nested
<1>5. job' \in [Tasks -> Jobs \cup {None}] /\ \A u \in Tasks \ {t} : job'[u] = job[u]
  BY <1>1 DEF ServerInv
<1>6. Busy'
  BY <1>1, <1>2, <1>5, ResolverAssumption DEF ServerInv, Busy
<1> QED
  BY <1>1, <1>4, <1>5, <1>6 DEF ServerInv

LEMMA ReplyKeeps == ASSUME ServerInv, NEW t \in Tasks, Reply(t) PROVE ServerInv'
<1>1. Resolved(t) /\ Finish(t) /\ UNCHANGED cache
  BY DEF Reply
<1> QED
  BY <1>1, KeepCache, FinishKeeps DEF ServerInv

LEMMA RefreshedKeeps == ASSUME ServerInv, NEW t \in Tasks, Refreshed(t) PROVE ServerInv'
<1>1. Resolved(t) /\ Finish(t) /\ cache' = LookedUp({<<job[t].name, "A">>})
  BY DEF Refreshed
<1>2. Stocked(cache')
  BY <1>1, CacheStocked DEF ServerInv
<1> QED
  BY <1>1, <1>2, FinishKeeps

LEMMA CancelledKeeps == ASSUME ServerInv, NEW t \in Tasks, Cancelled(t) PROVE ServerInv'
<1>1. Resolved(t) /\ Finish(t) /\ UNCHANGED cache
  BY DEF Cancelled
<1> QED
  BY <1>1, KeepCache, FinishKeeps DEF ServerInv

\* A request begins: its task neither ran nor waited.
LEMMA StartKeeps ==
  ASSUME ServerInv, NEW t \in Tasks, running = None, job[t] = None, Stocked(cache'),
         NEW n \in Domains, NEW ignore \in BOOLEAN, Start(t, n, ignore)
  PROVE  ResolverInv' /\ running' = t /\ UNCHANGED query
<1>1. PICK f : /\ f \in GoodFrames /\ f.pc = "start"
               /\ stack' = [stack EXCEPT ![t] = <<f>>]
  <2>1. n \in Names
    BY ServerAssumption
  <2>2. Outermost(n, ignore) \in GoodFrames
    BY <2>1, NewFrames DEF Outermost
  <2>3. Outermost(n, ignore).pc = "start"
    BY DEF Outermost, NameFrame, StubFrame
  <2> QED
    BY <2>2, <2>3 DEF Start
<1>2. running' = t /\ UNCHANGED <<query, ret, outcome>>
  BY DEF Start
<1>3. /\ <<f>> \in Seq(GoodFrames) /\ Len(<<f>>) = 1 /\ <<f>>[1] = f
      /\ \A i \in 1 .. Len(<<f>>) - 1 : Called(<<f>>[i], <<f>>[i + 1])
  <2>1. <<f>> \in Seq(GoodFrames) /\ Len(<<f>>) = 1 /\ <<f>>[1] = f
    BY <1>1
  <2>2. 1 .. 1 - 1 = {}
    BY SMT
  <2> QED
    BY <2>1, <2>2
<1>4. /\ stack' \in [Tasks -> Seq(GoodFrames)] /\ Nested'
      /\ stack'[t] = <<f>> /\ \A u \in Tasks \ {t} : stack'[u] = stack[u]
  BY <1>1, <1>3, NewStack DEF ServerInv
<1>5. query[t] = None
  BY DEF ServerInv, Busy
<1>6. Waiting'
  BY <1>2, <1>4, <1>5 DEF ServerInv, ResolverInv, Waiting, Top
<1>7. Top(t)' = f
  BY <1>3, <1>4 DEF Top
<1>8. Ready'
  BY <1>1, <1>2, <1>7 DEF Ready, Running, Expects
<1> QED
  BY <1>2, <1>4, <1>6, <1>8 DEF ServerInv, ResolverInv

\* The request of t is the record j.
LEMMA NewJob ==
  ASSUME ServerInv, NEW t \in Tasks, NEW j \in Jobs, job' = [job EXCEPT ![t] = j],
         UNCHANGED query, running' = t, running = None
  PROVE  job' \in [Tasks -> Jobs \cup {None}] /\ Busy'
<1>1. /\ job' \in [Tasks -> Jobs \cup {None}] /\ job'[t] = j
      /\ \A u \in Tasks \ {t} : job'[u] = job[u]
  BY DEF ServerInv
<1>2. Busy'
  BY <1>1, ServerAssumption DEF ServerInv, Busy
<1> QED
  BY <1>1, <1>2

LEMMA QueryKeeps ==
  ASSUME ServerInv, NEW t \in Tasks, NEW n \in Domains, Query(t, n) PROVE ServerInv'
<1>1. PICK j : /\ j = [kind |-> "query", name |-> n, before |-> None]
               /\ running = None /\ job[t] = None /\ job' = [job EXCEPT ![t] = j]
               /\ Start(t, n, FALSE) /\ out' = None
               /\ UNCHANGED <<cache, recursive, recent, slow, saved>>
  BY DEF Query
<1>2. j \in Jobs
  BY <1>1 DEF Jobs
<1>3. ResolverInv' /\ running' = t /\ UNCHANGED query
  BY <1>1, KeepCache, StartKeeps DEF ServerInv
<1>4. job' \in [Tasks -> Jobs \cup {None}] /\ Busy'
  BY <1>1, <1>2, <1>3, NewJob
<1> QED
  BY <1>1, <1>3, <1>4 DEF ServerInv

LEMMA RefreshKeeps ==
  ASSUME ServerInv, NEW t \in Tasks, NEW n \in Domains, Refresh(t, n) PROVE ServerInv'
<1>1. PICK b, j :
        /\ b = IF Live(<<n, "A">>) THEN Value(<<n, "A">>) ELSE None
        /\ j = [kind |-> "refresh", name |-> n, before |-> b]
        /\ running = None /\ job[t] = None /\ job' = [job EXCEPT ![t] = j]
        /\ recent' = recent \cup {n}
        /\ cache' = LookedUp({<<n, "A">>})
        /\ Start(t, n, TRUE) /\ out' = None
        /\ UNCHANGED <<recursive, slow, saved>>
  BY DEF Refresh
<1>2. b \in Addrs \cup {None}
  BY <1>1, CacheStocked, LiveFits DEF ServerInv
<1>3. j \in Jobs
  BY <1>1, <1>2 DEF Jobs
<1>4. Stocked(cache')
  BY <1>1, CacheStocked DEF ServerInv
<1>5. ResolverInv' /\ running' = t /\ UNCHANGED query
  BY <1>1, <1>4, StartKeeps
<1>6. job' \in [Tasks -> Jobs \cup {None}] /\ Busy'
  BY <1>1, <1>3, <1>5, NewJob
<1> QED
  BY <1>1, <1>5, <1>6 DEF ServerInv

\* The resolver when its variables, the cache aside, are left alone.
LEMMA ResolverIdle ==
  ASSUME ResolverInv, Stocked(cache'),
         UNCHANGED <<stack, query, running, ret, outcome>>
  PROVE  ResolverInv'
  BY DEF ResolverInv, Nested, Waiting, Ready, Running, Top

LEMMA SecondPassesKeeps ==
  ASSUME ServerInv, NEW n \in Domains, SecondPasses(n) PROVE ServerInv'
<1>1. /\ recent' = recent \ {n}
      /\ UNCHANGED <<cache, stack, query, running, ret, outcome, recursive, job, slow, saved>>
  BY DEF SecondPasses, resolverVars
<1>2. ResolverInv'
  BY <1>1, KeepCache, ResolverIdle DEF ServerInv
<1> QED
  BY <1>1, <1>2 DEF ServerInv, Busy

LEMMA TickKeeps == ASSUME ServerInv, Tick PROVE ServerInv'
<1>1. /\ cache' = Aged(cache) /\ saved' = Aged(saved) /\ out' = None
      /\ slow' = {t \in Tasks : job[t] # None}
      /\ UNCHANGED <<stack, query, running, ret, outcome, recursive, job, recent>>
  BY DEF Tick
<1>2. Stocked(cache') /\ Stocked(saved')
  BY <1>1, CacheStocked, AgedStocked DEF ServerInv
<1>3. ResolverInv'
  BY <1>1, <1>2, ResolverIdle DEF ServerInv
<1> QED
  BY <1>1, <1>2, <1>3 DEF ServerInv, Busy

\* A server without requests.
NoRequests ==
  /\ Stocked(cache) /\ Stocked(saved) /\ recursive \in BOOLEAN
  /\ stack = [t \in Tasks |-> <<>>] /\ query = [t \in Tasks |-> None]
  /\ running = None /\ ret = None /\ outcome = [t \in Tasks |-> None]
  /\ job = [t \in Tasks |-> None] /\ recent = {} /\ slow = {} /\ out = None

LEMMA NothingRuns == NoRequests => ServerInv
<1> SUFFICES ASSUME NoRequests PROVE ServerInv
  OBVIOUS
<1> USE DEF NoRequests
<1>1. stack \in [Tasks -> Seq(GoodFrames)]
  OBVIOUS
<1>2. Nested
  <2>1. \A t \in Tasks : stack[t] = <<>>
    OBVIOUS
  <2>2. 1 .. Len(<<>>) - 1 = {}
    BY SMT
  <2> QED
    BY <2>1, <2>2 DEF Nested
<1>3. Waiting /\ Ready
  BY ResolverAssumption DEF Waiting, Ready, Running
<1>4. ResolverInv
  BY <1>1, <1>2, <1>3 DEF ResolverInv
<1> QED
  BY <1>4, ResolverAssumption DEF ServerInv, Busy

LEMMA NothingRunsNext == NoRequests' => ServerInv'
  BY NothingRuns, PTL

LEMMA SeedStocked == Stocked(Seed) /\ Stocked(NoFile)
  BY ResolverAssumption DEF Stocked, NoFile

LEMMA InitHolds == Init => ServerInv
<1> SUFFICES ASSUME Init PROVE ServerInv
  OBVIOUS
<1>1. /\ cache = Seed /\ saved = NoFile /\ recursive \in BOOLEAN
      /\ stack = [t \in Tasks |-> <<>>] /\ query = [t \in Tasks |-> None]
      /\ running = None /\ ret = None /\ outcome = [t \in Tasks |-> None]
      /\ job = [t \in Tasks |-> None] /\ recent = {} /\ slow = {} /\ out = None
  BY ServerAssumption DEF Init, ResolverInit
<1> QED
  BY <1>1, SeedStocked, NothingRuns DEF NoRequests

LEMMA RestartKeeps ==
  ASSUME ServerInv, NEW f, Stocked(f), Restart(f), Stocked(saved') PROVE ServerInv'
<1>1. /\ cache' = Updated(Seed, f) /\ recursive' \in BOOLEAN
      /\ stack' = [t \in Tasks |-> <<>>] /\ query' = [t \in Tasks |-> None]
      /\ running' = None /\ ret' = None /\ outcome' = [t \in Tasks |-> None]
      /\ job' = [t \in Tasks |-> None] /\ recent' = {} /\ slow' = {} /\ out' = None
  BY DEF Restart, ServerInv
<1>2. Stocked(cache')
  BY <1>1, SeedStocked, UpdatedStocked
<1> QED
  BY <1>1, <1>2, NothingRunsNext DEF NoRequests

LEMMA StepKeeps == ServerInv /\ [Next]_vars => ServerInv'
<1> SUFFICES ASSUME ServerInv, [Next]_vars PROVE ServerInv'
  OBVIOUS
<1>1. ASSUME NEW t \in Tasks, Serve(t) PROVE ServerInv'
  BY <1>1, ResolveKeeps, ReplyKeeps, RefreshedKeeps, CancelledKeeps DEF Serve
<1>2. ASSUME NEW t \in Tasks, NEW n \in Domains, Query(t, n) \/ Refresh(t, n)
      PROVE  ServerInv'
  BY <1>2, QueryKeeps, RefreshKeeps
<1>3. ASSUME NEW n \in Domains, SecondPasses(n) PROVE ServerInv'
  BY <1>3, SecondPassesKeeps
<1>4. CASE Tick
  BY <1>4, TickKeeps
<1>5. CASE Interrupt
  BY <1>5, RestartKeeps DEF Interrupt, ServerInv, ResolverInv
<1>6. CASE Crash
  BY <1>6, RestartKeeps, SeedStocked DEF Crash, ServerInv
<1>7. CASE UNCHANGED vars
  <2>1. /\ UNCHANGED <<cache, stack, query, running, ret, outcome>>
        /\ UNCHANGED <<recursive, job, recent, slow, saved, out>>
    BY <1>7 DEF vars, resolverVars, serverVars
  <2>2. ResolverInv'
    BY <2>1, KeepCache, ResolverIdle DEF ServerInv
  <2> QED
    BY <2>1, <2>2 DEF ServerInv, Busy
<1> QED
  BY <1>1, <1>2, <1>3, <1>4, <1>5, <1>6, <1>7 DEF Next

-----------------------------------------------------------------------------
(* The theorems *)

\* The invariant holds in every state of every behaviour.
THEOREM Invariance == Spec => []ServerInv
<1>1. Init => ServerInv
  BY InitHolds
<1>2. ServerInv /\ [Next]_vars => ServerInv'
  BY StepKeeps
<1> QED
  BY <1>1, <1>2, PTL DEF Spec

LEMMA FramesTyped == ASSUME NEW s \in Seq(GoodFrames) PROVE s \in Seq(Frames)
<1>1. \A i \in 1 .. Len(s) : s[i] \in Frames
  BY ElementOfSeq DEF GoodFrames
<1>2. s = [i \in 1 .. Len(s) |-> s[i]] /\ Len(s) \in Nat
  BY LenProperties
<1> QED
  BY <1>1, <1>2, IsASeq

LEMMA InvTyped == ServerInv => TypeOK
<1> SUFFICES ASSUME ServerInv PROVE TypeOK
  OBVIOUS
<1>1. stack \in [Tasks -> Seq(Frames)]
  BY FramesTyped DEF ServerInv, ResolverInv
<1> QED
  BY <1>1 DEF ServerInv, ResolverInv, Stocked, TypeOK

LEMMA InvBounds == ServerInv => RoundsAreBounded
<1> SUFFICES ASSUME ServerInv, NEW t \in Tasks, NEW i \in DOMAIN stack[t]
             PROVE  stack[t][i].fn = "ns" =>
                      stack[t][i].lvl <= Len(Suffixes[stack[t][i].name]) + 1
  BY DEF RoundsAreBounded
<1>1. stack[t] \in Seq(GoodFrames)
  BY DEF ServerInv, ResolverInv
<1>2. stack[t][i] \in GoodFrames
  BY <1>1, ElementOfSeq, LenProperties
<1> QED
  BY <1>2 DEF GoodFrames

\* Whatever the name servers answer, every entry of the cache and the file,
\* every frame of a task and every question to a server is well formed.
THEOREM TypeCorrect == Spec => []TypeOK
BY Invariance, InvTyped, PTL

\* Whatever the name servers answer, resolve_ns_async never goes deeper than
\* its rounds: its recursion is bounded by the labels of the name.
THEOREM RoundsBounded == Spec => []RoundsAreBounded
BY Invariance, InvBounds, PTL

-----------------------------------------------------------------------------
(* The ages of the entries: what is in the file is no younger than what is in  *)
(* the cache, so that a restart makes nothing younger. *)

FileIsOlder == \A k \in DOMAIN cache \cap DOMAIN saved : cache[k].age <= saved[k].age

\* The cache loses entries, and nothing else.
Shrinks == DOMAIN cache' \subseteq DOMAIN cache /\ \A k \in DOMAIN cache' : cache'[k] = cache[k]

\* A question of some task ends, and the entries that differ are new.
Renewal ==
  /\ \E t \in Tasks : query[t] # None /\ query'[t] = None /\ running' = t
  /\ \A k \in DOMAIN cache' :
       cache'[k].age = 0 \/ (k \in DOMAIN cache /\ cache'[k] = cache[k])

LEMMA LookedUpShrinks == ASSUME NEW K, cache' = LookedUp(K) PROVE Shrinks
  BY DEF LookedUp, Shrinks

LEMMA StoredAges ==
  ASSUME NEW reply, NEW k \in DOMAIN Stored(reply, cache)
  PROVE  \/ Stored(reply, cache)[k].age = 0
         \/ k \in DOMAIN cache /\ Stored(reply, cache)[k] = cache[k]
<1> DEFINE at(j) == {i \in DOMAIN reply : reply[i].key = j}
           first(j) == CHOOSE i \in at(j) : \A h \in at(j) : i <= h
           written == {reply[i].key : i \in DOMAIN reply}
           d == [j \in written |-> [val |-> reply[first(j)].val,
                                    ttl |-> reply[first(j)].ttl, age |-> 0]]
<1>1. Stored(reply, cache) = Updated(cache, d)
  BY DEF Stored
<1>2. \A j \in DOMAIN d : d[j].age = 0
  OBVIOUS
<1> HIDE DEF d
<1> QED
  BY <1>1, <1>2 DEF Updated

LEMMA ResolverCache ==
  ASSUME ResolverInv, NEW t \in Tasks, ResolverStep(t) PROVE Shrinks \/ Renewal
<1>1. CASE UNCHANGED cache
  BY <1>1 DEF Shrinks
<1>2. CASE Answered(t)
  <2>1. PICK reply : cache' = Stored(reply, cache)
    BY <1>2 DEF Answered
  <2>2. query[t] # None /\ query'[t] = None /\ running' = t
    BY <1>2 DEF Answered, ResolverInv
  <2> QED
    BY <2>1, <2>2, StoredAges DEF Renewal
<1>3. CASE HitAlias(t) \/ MissName(t) \/ MissStub(t) \/ NotFound(t)
  BY <1>3, LookedUpShrinks DEF HitAlias, MissName, MissStub, NotFound
<1>4. CASE NsKnown(t) \/ NsAskRoot(t) \/ NsFind(t) \/ NsGivesUp(t)
  BY <1>4, LookedUpShrinks DEF NsKnown, NsAskRoot, NsFind, NsGivesUp, NsRound
<1> QED
  BY <1>1, <1>2, <1>3, <1>4
     DEF ResolverStep, HitAddress, HasServer, HasNoServer, AskName, Pass, NsAsk, NsAgain, Unanswered

\* What a step does to the cache and the file.
LEMMA CacheCases ==
  ASSUME ServerInv, [Next]_vars
  PROVE  \/ UNCHANGED saved /\ (Shrinks \/ Renewal)
         \/ Tick \/ Interrupt \/ Crash
<1>1. ASSUME NEW t \in Tasks, Serve(t) PROVE UNCHANGED saved /\ (Shrinks \/ Renewal)
  <2>1. CASE Resolve(t)
    BY <2>1, ResolverCache DEF Resolve, ServerInv
  <2>2. CASE Reply(t) \/ Cancelled(t)
    BY <2>2 DEF Reply, Cancelled, Finish, Shrinks
  <2>3. CASE Refreshed(t)
    BY <2>3, LookedUpShrinks DEF Refreshed, Finish
  <2> QED
    BY <1>1, <2>1, <2>2, <2>3 DEF Serve
<1>2. ASSUME NEW t \in Tasks, NEW n \in Domains, Query(t, n) \/ Refresh(t, n)
      PROVE  UNCHANGED saved /\ Shrinks
  <2>1. CASE Query(t, n)
    BY <2>1 DEF Query, Shrinks
  <2>2. CASE Refresh(t, n)
    BY <2>2, LookedUpShrinks DEF Refresh
  <2> QED
    BY <1>2, <2>1, <2>2
<1>3. ASSUME NEW n \in Domains, SecondPasses(n) PROVE UNCHANGED saved /\ Shrinks
  BY <1>3 DEF SecondPasses, resolverVars, Shrinks
<1>4. CASE UNCHANGED vars
  BY <1>4 DEF vars, resolverVars, serverVars, Shrinks
<1> QED
  BY <1>1, <1>2, <1>3, <1>4 DEF Next

LEMMA OlderOnTick ==
  ASSUME ServerInv, FileIsOlder, Tick
  PROVE  /\ FileIsOlder'
         /\ DOMAIN cache' = DOMAIN cache /\ \A k \in DOMAIN cache : cache[k].age <= cache'[k].age
<1>1. cache' = Aged(cache) /\ saved' = Aged(saved)
  BY DEF Tick
<1>2. ASSUME NEW c, Stocked(c), NEW k \in DOMAIN c
      PROVE  /\ DOMAIN Aged(c) = DOMAIN c /\ c[k].age \in Nat
             /\ Aged(c)[k].age = IF c[k].age < MaxAge THEN c[k].age + 1 ELSE c[k].age
  <2>1. c[k] \in [val : Addrs \cup Names, ttl : Nat, age : Nat]
    BY <1>2 DEF Stocked, Entries
  <2> QED
    BY <2>1 DEF Aged
<1>3. Stocked(cache) /\ Stocked(saved) /\ MaxAge \in Nat
  BY ResolverAssumption DEF ServerInv, ResolverInv
<1>4. DOMAIN cache' = DOMAIN cache /\ DOMAIN saved' = DOMAIN saved
  BY <1>1 DEF Aged
<1>5. ASSUME NEW k \in DOMAIN cache PROVE cache[k].age <= cache'[k].age
  BY <1>1, <1>2, <1>3
<1>6. ASSUME NEW k \in DOMAIN cache \cap DOMAIN saved PROVE cache'[k].age <= saved'[k].age
  <2>1. cache[k].age <= saved[k].age
    BY DEF FileIsOlder
  <2>2. /\ cache[k].age \in Nat /\ saved[k].age \in Nat
        /\ cache'[k].age = IF cache[k].age < MaxAge THEN cache[k].age + 1 ELSE cache[k].age
        /\ saved'[k].age = IF saved[k].age < MaxAge THEN saved[k].age + 1 ELSE saved[k].age
    BY <1>1, <1>2, <1>3
  <2> QED
    BY <2>1, <2>2, <1>3
<1> QED
  BY <1>4, <1>5, <1>6 DEF FileIsOlder

\* After a restart the file's entries are in the cache, with the program's own for
\* other keys.
LEMMA Restarted ==
  ASSUME NEW f, Restart(f), NEW k \in DOMAIN cache'
  PROVE  (k \in DOMAIN f => cache'[k] = f[k]) /\ (k \notin DOMAIN f => k \in DOMAIN Seed)
  BY DEF Restart, Updated

LEMMA OlderInit == Init => FileIsOlder
  BY DEF Init, NoFile, FileIsOlder

LEMMA AgesTyped == ASSUME NEW c, Stocked(c), NEW k \in DOMAIN c PROVE c[k].age \in Nat
  BY DEF Stocked, Entries

LEMMA OlderStep == ServerInv /\ FileIsOlder /\ [Next]_vars => FileIsOlder'
<1> SUFFICES ASSUME ServerInv, FileIsOlder, [Next]_vars PROVE FileIsOlder'
  OBVIOUS
<1>1. Stocked(cache) /\ Stocked(saved) /\ Stocked(cache') /\ Stocked(saved')
  BY StepKeeps DEF ServerInv, ResolverInv
<1>2. CASE UNCHANGED saved /\ Shrinks
  BY <1>2 DEF Shrinks, FileIsOlder
<1>3. CASE UNCHANGED saved /\ Renewal
  <2> SUFFICES ASSUME NEW k \in DOMAIN cache' \cap DOMAIN saved
               PROVE  cache'[k].age <= saved[k].age
    BY <1>3 DEF FileIsOlder
  <2>1. saved[k].age \in Nat
    BY <1>1, AgesTyped
  <2>2. cache'[k].age = 0 \/ (k \in DOMAIN cache /\ cache'[k] = cache[k])
    BY <1>3 DEF Renewal
  <2> QED
    BY <2>1, <2>2 DEF FileIsOlder
<1>4. CASE Tick
  BY <1>4, OlderOnTick
<1>5. ASSUME NEW f, Restart(f), saved' = f PROVE FileIsOlder'
  <2> SUFFICES ASSUME NEW k \in DOMAIN cache' \cap DOMAIN saved'
               PROVE  cache'[k].age <= saved'[k].age
    BY DEF FileIsOlder
  <2>1. cache'[k] = saved'[k]
    BY <1>5, Restarted
  <2>2. saved'[k].age \in Nat
    BY <1>1, AgesTyped
  <2> QED
    BY <2>1, <2>2
<1>6. CASE Interrupt
  BY <1>5, <1>6 DEF Interrupt
<1>7. CASE Crash
  BY <1>5, <1>7 DEF Crash
<1> QED
  BY <1>2, <1>3, <1>4, <1>6, <1>7, CacheCases

\* A restart, from a file however old, never makes an entry younger than the
\* cache had it: the file keeps the times at which entries were stored.
THEOREM OnlyRepliesRenewEntries == Spec => OnlyRepliesRenew
<1> DEFINE renewed == \E k \in (DOMAIN cache \cap DOMAIN cache') \ DOMAIN Seed :
                        cache'[k].age < cache[k].age
           replied == \E t \in Tasks : query[t] # None /\ query'[t] = None /\ running' = t
<1>1. ServerInv /\ FileIsOlder /\ [Next]_vars => (renewed => replied)
  <2> SUFFICES ASSUME ServerInv, FileIsOlder, [Next]_vars, ~replied,
                      NEW k \in (DOMAIN cache \cap DOMAIN cache') \ DOMAIN Seed
               PROVE  ~(cache'[k].age < cache[k].age)
    OBVIOUS
  <2>1. Stocked(cache) /\ Stocked(saved) /\ Stocked(cache')
    BY StepKeeps DEF ServerInv, ResolverInv
  <2>2. cache[k].age \in Nat /\ cache'[k].age \in Nat
    BY <2>1, AgesTyped
  <2>3. CASE Shrinks
    BY <2>2, <2>3 DEF Shrinks
  <2>4. CASE Renewal
    BY <2>4 DEF Renewal
  <2>5. CASE Tick
    BY <2>2, <2>5, OlderOnTick
  <2>6. CASE Interrupt
    <3>1. cache'[k] = cache[k]
      BY <2>6, Restarted DEF Interrupt
    <3> QED
      BY <2>2, <3>1
  <2>7. CASE Crash
    <3>1. k \in DOMAIN saved /\ cache'[k] = saved[k]
      BY <2>7, Restarted DEF Crash, NoFile
    <3>2. cache[k].age <= cache'[k].age
      BY <3>1 DEF FileIsOlder
    <3> QED
      BY <2>2, <3>2
  <2> QED
    BY <2>3, <2>4, <2>5, <2>6, <2>7, CacheCases
<1>2. ServerInv /\ FileIsOlder /\ [Next]_vars => [renewed => replied]_vars
  BY <1>1
<1> QED
  BY <1>2, Invariance, OlderInit, OlderStep, PTL DEF Spec, OnlyRepliesRenew

-----------------------------------------------------------------------------
(* The notices of the control port: while a refresh waits, the address it has  *)
(* remembered either stays in the cache or makes room for one that is new. *)

\* How old an entry can be that was stored while t's request was served.
Lived(t) == IF t \in slow THEN 1 ELSE 0

\* The address that t remembers for key k is still there, or k is gone or new.
RemembersOrNew(t, k) ==
  k \in DOMAIN cache => cache[k].val = job[t].before \/ cache[k].age <= Lived(t)

Remembered ==
  \A t \in Tasks : job[t] # None /\ job[t].kind = "refresh" /\ job[t].before # None
                   => RemembersOrNew(t, <<job[t].name, "A">>)

\* A step of the resolver or the end of a lookup.
LEMMA RemembersOn ==
  ASSUME NEW t \in Tasks, NEW k, RemembersOrNew(t, k), Shrinks \/ Renewal,
         job'[t] = job[t], t \in slow' <=> t \in slow
  PROVE  RemembersOrNew(t, k)'
  BY DEF RemembersOrNew, Lived, Shrinks, Renewal

\* A step that leaves t with its request, with none, or with one that remembers
\* what is in the cache.
Minds(t) ==
  \/ job'[t] = None \/ job'[t].before = None
  \/ job'[t] = job[t] /\ (t \in slow' <=> t \in slow)
  \/ RemembersOrNew(t, <<job[t].name, "A">>)'

LEMMA RememberedOn ==
  ASSUME Remembered, Shrinks \/ Renewal, \A t \in Tasks : Minds(t) PROVE Remembered'
<1> SUFFICES ASSUME NEW t \in Tasks, job'[t] # None, job'[t].kind = "refresh",
                    job'[t].before # None, job'[t] = job[t], t \in slow' <=> t \in slow
             PROVE  RemembersOrNew(t, <<job[t].name, "A">>)'
  BY DEF Remembered, Minds
<1>1. RemembersOrNew(t, <<job[t].name, "A">>)
  BY DEF Remembered
<1> QED
  BY <1>1, RemembersOn

LEMMA FinishRemembers ==
  ASSUME ServerInv, Remembered, NEW t \in Tasks, Finish(t), Shrinks PROVE Remembered'
<1>1. /\ job' = [job EXCEPT ![t] = None] /\ job \in [Tasks -> Jobs \cup {None}]
      /\ slow' = slow \ {t}
  BY DEF Finish, ServerInv
<1>2. job'[t] = None /\ \A u \in Tasks \ {t} : job'[u] = job[u]
  BY <1>1
<1>3. \A u \in Tasks \ {t} : u \in slow' <=> u \in slow
  BY <1>1
<1>4. \A u \in Tasks : Minds(u)
  BY <1>2, <1>3, Zenon DEF Minds
<1> QED
  BY <1>4, RememberedOn

LEMMA RefreshRemembers ==
  ASSUME ServerInv, Remembered, NEW t \in Tasks, NEW n \in Domains, Refresh(t, n)
  PROVE  Remembered'
<1> DEFINE k == <<n, "A">>
<1>1. PICK b, j :
        /\ b = IF Live(k) THEN Value(k) ELSE None
        /\ j = [kind |-> "refresh", name |-> n, before |-> b]
        /\ job' = [job EXCEPT ![t] = j]
        /\ cache' = LookedUp({k}) /\ UNCHANGED slow
  BY DEF Refresh
<1>2. job'[t] = j /\ \A u \in Tasks \ {t} : job'[u] = job[u]
  BY <1>1 DEF ServerInv
<1>3. k \in DOMAIN cache' => Live(k) /\ cache'[k] = cache[k]
  BY <1>1 DEF LookedUp, Live
<1>4. RemembersOrNew(t, <<job[t].name, "A">>)'
  BY <1>1, <1>2, <1>3 DEF RemembersOrNew, Value
<1>5. Shrinks
  BY <1>1, LookedUpShrinks
<1>6. \A u \in Tasks : Minds(u)
  BY <1>1, <1>2, <1>4 DEF Minds
<1> QED
  BY <1>5, <1>6, RememberedOn

\* No request has seen a tick before this one.
LEMMA TickRemembers == ASSUME ServerInv, Remembered, Tick PROVE Remembered'
<1>1. /\ slow = {} /\ slow' = {t \in Tasks : job[t] # None} /\ cache' = Aged(cache)
      /\ UNCHANGED job
  BY DEF Tick
<1> SUFFICES ASSUME NEW t \in Tasks, job[t] # None, job[t].kind = "refresh",
                    job[t].before # None
             PROVE  RemembersOrNew(t, <<job[t].name, "A">>)'
  BY <1>1 DEF Remembered
<1>2. PICK k : k = <<job[t].name, "A">> /\ k = <<job'[t].name, "A">>
  BY <1>1
<1> SUFFICES ASSUME k \in DOMAIN cache'
             PROVE  cache'[k].val = job'[t].before \/ cache'[k].age <= 1
  BY <1>1, <1>2 DEF RemembersOrNew, Lived
<1>3. k \in DOMAIN cache /\ cache[k].age \in Nat
  BY <1>1, AgesTyped DEF Aged, ServerInv, ResolverInv
<1>4. cache[k].val = job[t].before \/ cache[k].age <= 0
  BY <1>1, <1>2, <1>3 DEF Remembered, RemembersOrNew, Lived
<1>5. cache[k] \in [val : Addrs \cup Names, ttl : Nat, age : Nat]
  BY <1>3 DEF ServerInv, ResolverInv, Stocked, Entries
<1>6. cache'[k].val = cache[k].val /\ cache'[k].age \in {cache[k].age, cache[k].age + 1}
  BY <1>1, <1>3, <1>5 DEF Aged
<1> QED
  BY <1>1, <1>3, <1>4, <1>6

LEMMA RememberedStep == ServerInv /\ Remembered /\ [Next]_vars => Remembered'
<1> SUFFICES ASSUME ServerInv, Remembered, [Next]_vars PROVE Remembered'
  OBVIOUS
<1>1. ASSUME NEW t \in Tasks, Serve(t) PROVE Remembered'
  <2>1. CASE Resolve(t)
    <3>1. UNCHANGED <<job, slow>> /\ (Shrinks \/ Renewal)
      BY <2>1, ResolverCache DEF Resolve, ServerInv
    <3> QED
      BY <3>1, RememberedOn DEF Minds
  <2>2. CASE Reply(t) \/ Cancelled(t)
    BY <2>2, FinishRemembers DEF Reply, Cancelled, Shrinks
  <2>3. CASE Refreshed(t)
    BY <2>3, LookedUpShrinks, FinishRemembers DEF Refreshed
  <2> QED
    BY <1>1, <2>1, <2>2, <2>3 DEF Serve
<1>2. ASSUME NEW t \in Tasks, NEW n \in Domains, Query(t, n) PROVE Remembered'
  <2>1. UNCHANGED <<cache, slow>> /\ \A u \in Tasks : job'[u] = job[u] \/ job'[u].before = None
    BY <1>2 DEF Query, ServerInv
  <2> QED
    BY <2>1, RememberedOn DEF Shrinks, Minds
<1>3. ASSUME NEW t \in Tasks, NEW n \in Domains, Refresh(t, n) PROVE Remembered'
  BY <1>3, RefreshRemembers
<1>4. CASE (\E n \in Domains : SecondPasses(n)) \/ UNCHANGED vars
  <2>1. UNCHANGED <<cache, job, slow>>
    BY <1>4 DEF SecondPasses, vars, resolverVars, serverVars
  <2> QED
    BY <2>1, RememberedOn DEF Shrinks, Minds
<1>5. CASE Tick
  BY <1>5, TickRemembers
<1>6. CASE Interrupt \/ Crash
  BY <1>6 DEF Interrupt, Crash, Restart, Remembered
<1> QED
  BY <1>1, <1>2, <1>3, <1>4, <1>5, <1>6 DEF Next

LEMMA NewsStep == ServerInv /\ Remembered /\ NoticeIsNews /\ [Next]_vars => NoticeIsNews'
<1> SUFFICES ASSUME ServerInv, Remembered, NoticeIsNews, [Next]_vars PROVE NoticeIsNews'
  OBVIOUS
<1>1. ASSUME out' = None \/ out'.kind # "notice" PROVE NoticeIsNews'
  BY <1>1 DEF NoticeIsNews
<1>2. ASSUME NEW t \in Tasks, Serve(t) PROVE NoticeIsNews'
  <2>1. CASE Resolve(t) \/ Reply(t) \/ Cancelled(t)
    BY <1>1, <2>1 DEF Resolve, Reply, Cancelled, Answer, NxDomain
  <2>2. CASE Refreshed(t)
    <3>1. PICK n, k : n = job[t].name /\ k = <<n, "A">>
      OBVIOUS
    <3>2. CASE ~(Live(k) /\ None \notin {Value(k), job[t].before} /\ Value(k) # job[t].before)
      BY <1>1, <2>2, <3>1, <3>2 DEF Refreshed
    <3>3. CASE Live(k) /\ None \notin {Value(k), job[t].before} /\ Value(k) # job[t].before
      <4>1. cache' = LookedUp({k}) /\ out' = Notice(n, Value(k))
        BY <2>2, <3>1, <3>3 DEF Refreshed
      <4>2. k \in DOMAIN cache' /\ cache'[k] = cache[k] /\ k \in DOMAIN cache
        BY <3>3, <4>1 DEF LookedUp, Live
      <4>3. job[t] # None /\ job[t].kind = "refresh"
        BY <2>2 DEF Refreshed, Resolved, ServerInv, Busy
      <4>4. cache[k].age <= Lived(t)
        BY <3>1, <3>3, <4>2, <4>3 DEF Remembered, RemembersOrNew, Value
      <4>5. cache[k].age \in Nat
        BY <4>2, AgesTyped DEF ServerInv, ResolverInv
      <4>6. cache'[k].age <= 1
        BY <4>2, <4>4, <4>5 DEF Lived
      <4> QED
        BY <3>1, <4>1, <4>2, <4>6 DEF NoticeIsNews, Notice, Value
    <3> QED
      BY <3>2, <3>3
  <2> QED
    BY <1>2, <2>1, <2>2 DEF Serve
<1>3. CASE UNCHANGED vars
  BY <1>3 DEF vars, resolverVars, serverVars, NoticeIsNews
<1> QED
  BY <1>1, <1>2, <1>3 DEF Next, Query, Refresh, SecondPasses, Tick, Interrupt, Crash, Restart

\* However many requests share the cache, and whatever the name servers answer, an
\* address that the control port announces is one that a reply has given during the
\* refresh: line 218 does not announce what was there before, late or again.
THEOREM NoticesAreNews == Spec => []NoticeIsNews
<1>1. Init => Remembered /\ NoticeIsNews
  BY DEF Init, Remembered, NoticeIsNews
<1> QED
  BY <1>1, Invariance, RememberedStep, NewsStep, PTL DEF Spec

-----------------------------------------------------------------------------
(* The answers of a server that has one request at a time and asks the stub    *)
(* resolver (--ns), if replies keep to the point.  Between the lookup that     *)
(* meets an alias and the reply nothing else changes the cache then, a tick    *)
(* aside, so that good aliases lead from the name asked for to the name that   *)
(* is being looked up, and at last to one with an address.                     *)

Alone == (\E t \in Tasks : Tasks = {t}) /\ ToThePoint

\* Key k has expired since the request began, if at all.
Good(k) ==
  /\ k \in DOMAIN cache
  /\ cache[k].age <= Larger(cache[k].ttl, Floor) + (IF slow = {} THEN 0 ELSE 1)

\* The reply's walk goes on from x by a good alias, or ends there at a good
\* address.
LeadsOn(x) == Good(<<x, "CNAME">>) /\ (Cached(<<x, "A">>) => Good(<<x, "A">>))

\* The names that good aliases lead to from n.
Way(n) ==
  {m \in Names : \A S \in SUBSET Names :
     n \in S /\ (\A x \in S : LeadsOn(x) => Value(<<x, "CNAME">>) \in S) => m \in S}

KnownAliases(c) ==
  \A m \in Names : <<m, "CNAME">> \in DOMAIN c => GivesAlias(m, c[<<m, "CNAME">>].val)

\* Calls of resolve_name_iteratively_async, each in the `return await` of the one
\* below it.
StubStack(s) ==
  \A i \in 1 .. Len(s) : s[i].fn = "stub" /\ (i # Len(s) => s[i].pc = "pass")

\* The lookup of t is over but for the returns.
Found(t) == running = t /\ \E m \in Way(job[t].name) : Live(<<m, "A">>)

OnItsWay(t) ==
  /\ StubStack(stack[t])
  /\ query[t] # None => query[t] = <<StubAddr, Top(t).name, "A">>
  /\ stack[t] # <<>> =>
       /\ job[t] # None
       /\ Top(t).pc \in {"start", "asked", "pass"}
       /\ IF Top(t).pc = "pass" THEN Found(t) ELSE Top(t).name \in Way(job[t].name)
  /\ Resolved(t) /\ outcome[t] = "found" => Found(t)

AnswersGood == AnswerHasAddress /\ AnswerIsRecent

AloneInv ==
  /\ ~recursive
  /\ KnownAliases(cache) /\ KnownAliases(saved)
  /\ \A t \in Tasks : OnItsWay(t)
  /\ AnswersGood

\* The way

LEMMA AliasIsName ==
  ASSUME Stocked(cache), NEW x, Cached(<<x, "CNAME">>)
  PROVE  x \in Names /\ Value(<<x, "CNAME">>) \in Names
  BY DEF Stocked, Cached, Value, Fits, Keys

LEMMA WayItself == ASSUME NEW n \in Names PROVE n \in Way(n)
  BY DEF Way

LEMMA WayOn ==
  ASSUME Stocked(cache), NEW n, NEW m \in Way(n), LeadsOn(m)
  PROVE  Value(<<m, "CNAME">>) \in Way(n)
<1>1. Value(<<m, "CNAME">>) \in Names
  BY AliasIsName DEF LeadsOn, Good, Cached
<1> QED
  BY <1>1 DEF Way

\* What happens to the records of a name cuts no way to that name.
LEMMA WayKeeps ==
  ASSUME NEW n, NEW m \in Way(n),
         \A x \in Names \ {m} : LeadsOn(x) =>
           LeadsOn(x)' /\ Value(<<x, "CNAME">>)' = Value(<<x, "CNAME">>)
  PROVE  m \in Way(n)'
<1>1. m \in Names
  BY DEF Way
<1> SUFFICES ASSUME NEW S \in SUBSET Names, n \in S, m \notin S,
                    \A x \in S : LeadsOn(x)' => Value(<<x, "CNAME">>)' \in S
             PROVE  FALSE
  BY <1>1 DEF Way
<1>2. \A x \in S : LeadsOn(x) => Value(<<x, "CNAME">>) \in S
  OBVIOUS
<1> QED
  BY <1>2 DEF Way

\* Every name from which m can be reached has its alias on the way, m aside.
LEMMA WayBack ==
  ASSUME Stocked(cache), NEW x \in Names, NEW m \in Way(x), m # x
  PROVE  LeadsOn(x) /\ m \in Way(Value(<<x, "CNAME">>))
<1>1. LeadsOn(x)
  <2> SUFFICES ASSUME ~LeadsOn(x) PROVE FALSE
    OBVIOUS
  <2>1. {x} \in SUBSET Names /\ \A y \in {x} : ~LeadsOn(y)
    OBVIOUS
  <2>2. m \in {x}
    BY <2>1 DEF Way
  <2> QED
    BY <2>2
<1>2. PICK v : v = Value(<<x, "CNAME">>)
  OBVIOUS
<1>3. ASSUME NEW S \in SUBSET Names, v \in S,
             \A y \in S : LeadsOn(y) => Value(<<y, "CNAME">>) \in S
      PROVE  m \in S
  <2>1. S \cup {x} \in SUBSET Names /\ x \in S \cup {x}
    OBVIOUS
  <2>2. \A y \in S \cup {x} : LeadsOn(y) => Value(<<y, "CNAME">>) \in S \cup {x}
    BY <1>2, <1>3
  <2>3. m \in S \cup {x}
    BY <2>1, <2>2 DEF Way
  <2> QED
    BY <2>3
<1>4. m \in Names
  BY DEF Way
<1>5. m \in Way(v)
  BY <1>3, <1>4 DEF Way
<1> QED
  BY <1>1, <1>2, <1>5

\* What the walk of the reply meets, when there is a way from n to an address.
LEMMA ChainGood ==
  ASSUME Stocked(cache), NEW n \in Names, NEW m \in Way(n), Live(<<m, "A">>), NEW x \in Chain(n)
  PROVE  /\ Good(<<x, "A">>) \/ (~Cached(<<x, "A">>) /\ Good(<<x, "CNAME">>))
<1>1. Good(<<m, "A">>) /\ Cached(<<m, "A">>)
  <2>1. <<m, "A">> \in DOMAIN cache /\ cache[<<m, "A">>] \in Entries
    BY DEF Live, Stocked
  <2>2. PICK a, l \in Nat : a = cache[<<m, "A">>].age /\ l = Larger(cache[<<m, "A">>].ttl, Floor)
    BY <2>1, ResolverAssumption DEF Entries, Larger
  <2>3. a <= l
    BY <2>2 DEF Live, Valid
  <2>4. a <= l + (IF slow = {} THEN 0 ELSE 1)
    BY <2>2, <2>3
  <2> QED
    BY <2>1, <2>2, <2>4 DEF Good, Cached
<1> DEFINE D == {y \in Names : m \in Way(y)}
<1>2. ASSUME NEW y \in D, ~Cached(<<y, "A">>), Cached(<<y, "CNAME">>)
      PROVE  Value(<<y, "CNAME">>) \in D
  <2>1. y # m
    BY <1>1, <1>2
  <2> QED
    BY <1>2, <2>1, WayBack, AliasIsName
<1>3. n \in D /\ D \in SUBSET Names
  OBVIOUS
<1>4. x \in D
  <2> HIDE DEF D
  <2> QED
    BY <1>2, <1>3 DEF Chain
<1>5. CASE x = m
  BY <1>1, <1>5
<1>6. CASE x # m
  BY <1>4, <1>6, WayBack DEF LeadsOn
<1> QED
  BY <1>5, <1>6

LEMMA AnswerGood ==
  ASSUME Stocked(cache), NEW n \in Names, NEW m \in Way(n), Live(<<m, "A">>), Ends(n)
  PROVE  /\ \E r \in Answer(n).records : r.key[2] = "A"
         /\ \A r \in Answer(n).records : r.entry.age <= Larger(r.entry.ttl, Floor) + 1
<1>1. Answer(n).records = {[key |-> k, entry |-> cache[k]] : k \in AnswerKeys(n)}
  BY DEF Answer
<1>2. PICK z \in Chain(n) : Cached(<<z, "A">>) \/ ~Cached(<<z, "CNAME">>)
  BY DEF Ends
<1>3. Cached(<<z, "A">>)
  BY <1>2, ChainGood DEF Good, Cached
<1>4. <<z, "A">> \in AnswerKeys(n)
  BY <1>3 DEF AnswerKeys, KeyOf, Cached
<1>5. ASSUME NEW k \in AnswerKeys(n) PROVE cache[k].age <= Larger(cache[k].ttl, Floor) + 1
  <2>1. PICK x \in Chain(n) : k = KeyOf(x)
    BY DEF AnswerKeys
  <2>2. Good(k)
    BY <2>1, ChainGood DEF KeyOf, Good, Cached
  <2>3. cache[k] \in Entries
    BY <2>2 DEF Good, Stocked
  <2>4. PICK a, l \in Nat : a = cache[k].age /\ l = Larger(cache[k].ttl, Floor)
    BY <2>3, ResolverAssumption DEF Entries, Larger
  <2>5. a <= l + 1
    BY <2>2, <2>4 DEF Good
  <2> QED
    BY <2>4, <2>5
<1>6. \E r \in Answer(n).records : r.key[2] = "A"
  <2>1. PICK r : r = [key |-> <<z, "A">>, entry |-> cache[<<z, "A">>]]
    OBVIOUS
  <2>2. r \in Answer(n).records /\ r.key = <<z, "A">>
    BY <1>1, <1>4, <2>1
  <2> QED
    BY <2>2
<1>7. ASSUME NEW r \in Answer(n).records PROVE r.entry.age <= Larger(r.entry.ttl, Floor) + 1
  <2>1. PICK k \in AnswerKeys(n) : r = [key |-> k, entry |-> cache[k]]
    BY <1>1
  <2>2. r.entry = cache[k]
    BY <2>1
  <2> QED
    BY <2>2, <1>5
<1> QED
  BY <1>6, <1>7

\* What a reply leaves of an entry, or makes of it.
LEMMA StoredEntry ==
  ASSUME NEW reply, DOMAIN reply \in SUBSET Nat, NEW k \in DOMAIN Stored(reply, cache)
  PROVE  \/ /\ \E i \in DOMAIN reply : reply[i].key = k /\ Stored(reply, cache)[k].val = reply[i].val
            /\ Stored(reply, cache)[k].age = 0
         \/ /\ k \in DOMAIN cache /\ Stored(reply, cache)[k] = cache[k]
            /\ \A i \in DOMAIN reply : reply[i].key # k
<1> DEFINE at(j) == {i \in DOMAIN reply : reply[i].key = j}
           first(j) == CHOOSE i \in at(j) : \A h \in at(j) : i <= h
           written == {reply[i].key : i \in DOMAIN reply}
           d == [j \in written |-> [val |-> reply[first(j)].val,
                                    ttl |-> reply[first(j)].ttl, age |-> 0]]
<1>1. Stored(reply, cache) = Updated(cache, d)
  BY DEF Stored
<1>2. CASE k \in written
  <2>1. at(k) \in SUBSET Nat /\ at(k) # {}
    BY <1>2
  <2>2. PICK m \in at(k) : \A j \in at(k) : m <= j
    BY <2>1, Smallest
  <2>3. first(k) \in at(k)
    BY <2>2
  <2>4. d[k].val = reply[first(k)].val /\ d[k].age = 0
    BY <1>2
  <2>5. Updated(cache, d)[k] = d[k]
    <3> HIDE DEF d
    <3>1. k \in DOMAIN d
      BY <1>2 DEF d
    <3> QED
      BY <3>1 DEF Updated
  <2> QED
    BY <1>1, <2>3, <2>4, <2>5
<1>3. CASE k \notin written
  <2>1. k \notin DOMAIN d /\ \A i \in DOMAIN reply : reply[i].key # k
    BY <1>3
  <2> HIDE DEF d
  <2> QED
    BY <1>1, <2>1 DEF Updated
<1> QED
  BY <1>2, <1>3

LEMMA StoredKeys == ASSUME NEW reply PROVE DOMAIN cache \subseteq DOMAIN Stored(reply, cache)
<1> DEFINE at(j) == {i \in DOMAIN reply : reply[i].key = j}
           first(j) == CHOOSE i \in at(j) : \A h \in at(j) : i <= h
           written == {reply[i].key : i \in DOMAIN reply}
           d == [j \in written |-> [val |-> reply[first(j)].val,
                                    ttl |-> reply[first(j)].ttl, age |-> 0]]
<1>1. Stored(reply, cache) = Updated(cache, d)
  BY DEF Stored
<1> HIDE DEF d
<1> QED
  BY <1>1 DEF Updated

LEMMA StubReply ==
  ASSUME NEW m \in Names, NEW reply \in Replies[<<StubAddr, m, "A">>]
  PROVE  <<StubAddr, m, "A">> \in Questions /\ DOMAIN reply \in SUBSET Nat
<1>1. <<StubAddr, m, "A">> \in Questions
  BY ResolverAssumption DEF Questions
<1>2. reply \in Seq([key : Keys, val : Addrs \cup Names, ttl : Nat])
  BY <1>1, ResolverAssumption
<1> QED
  BY <1>1, <1>2, LenProperties

\* A good entry stays good when a reply is stored.
LEMMA GoodStored ==
  ASSUME Stocked(cache), NEW m \in Names, NEW reply \in Replies[<<StubAddr, m, "A">>],
         cache' = Stored(reply, cache), UNCHANGED slow, NEW k \in DOMAIN cache, Good(k)
  PROVE  Good(k)'
<1>1. DOMAIN reply \in SUBSET Nat /\ <<StubAddr, m, "A">> \in Questions
  BY StubReply
<1>2. k \in DOMAIN cache'
  BY StoredKeys
<1>3. CASE cache'[k] = cache[k]
  BY <1>2, <1>3 DEF Good
<1>4. CASE cache'[k].age = 0
  <2>1. cache'[k].ttl \in Nat
    BY <1>1, <1>2, StoredStocked DEF Stocked, Entries
  <2>2. PICK l \in Nat : l = Larger(cache'[k].ttl, Floor)
    BY <2>1, ResolverAssumption DEF Larger
  <2>3. 0 <= l + (IF slow = {} THEN 0 ELSE 1)
    BY <2>2
  <2> QED
    BY <1>2, <1>4, <2>2, <2>3 DEF Good
<1> QED
  BY <1>1, <1>2, <1>3, <1>4, StoredAges

\* A reply about m cuts no way to m.
LEMMA WayStored ==
  ASSUME ToThePoint, Stocked(cache), KnownAliases(cache), NEW n, NEW m \in Way(n), m \in Names,
         NEW reply \in Replies[<<StubAddr, m, "A">>],
         cache' = Stored(reply, cache), UNCHANGED slow
  PROVE  m \in Way(n)'
<1> SUFFICES ASSUME NEW S \in SUBSET Names, n \in S, m \notin S,
                    \A x \in S : LeadsOn(x)' => Value(<<x, "CNAME">>)' \in S
             PROVE  FALSE
  BY DEF Way
\* The names that can never lead to m, and those of S, are a set that no good
\* alias of the old cache leaves either.
<1> DEFINE D == {x \in Names : m \notin EverAliases(x)}
           T == S \cup D
<1>1. m \in EverAliases(m)
  BY DEF EverAliases
<1>2. ASSUME NEW x \in D, NEW v \in Names, GivesAlias(x, v) PROVE v \in D
  <2> SUFFICES ASSUME m \in EverAliases(v) PROVE m \in EverAliases(x)
    OBVIOUS
  <2> SUFFICES ASSUME NEW R \in SUBSET Names, x \in R,
                      \A a \in R : \A b \in Names : GivesAlias(a, b) => b \in R
               PROVE  m \in R
    BY DEF EverAliases
  <2>1. v \in R
    BY <1>2
  <2> QED
    BY <2>1 DEF EverAliases
<1>3. ASSUME NEW x \in T, LeadsOn(x) PROVE Value(<<x, "CNAME">>) \in T
  <2>1. Cached(<<x, "CNAME">>)
    BY <1>3 DEF LeadsOn, Good, Cached
  <2>2. x \in Names /\ Value(<<x, "CNAME">>) \in Names /\ GivesAlias(x, Value(<<x, "CNAME">>))
    BY <2>1, AliasIsName DEF KnownAliases, Cached, Value
  <2>3. CASE x \in D
    BY <2>2, <2>3, <1>2
  <2>4. CASE x \notin D
    <3>1. x \in S /\ x # m /\ m \in EverAliases(x)
      BY <2>4, <2>2
    <3>2. \A i \in DOMAIN reply : reply[i].key # <<x, "CNAME">>
      BY <3>1, <2>2 DEF ToThePoint
    <3>3. <<x, "CNAME">> \in DOMAIN cache' /\ cache'[<<x, "CNAME">>] = cache[<<x, "CNAME">>]
      BY <2>1, <3>2, StoredKeys, StoredEntry, StubReply DEF Cached
    <3>4. Good(<<x, "CNAME">>)'
      BY <1>3, <3>3 DEF LeadsOn, Good
    <3>5. Cached(<<x, "A">>)' => Good(<<x, "A">>)'
      <4>1. CASE <<x, "A">> \in DOMAIN cache
        BY <4>1, <1>3, GoodStored DEF LeadsOn, Cached
      <4>2. CASE <<x, "A">> \notin DOMAIN cache /\ <<x, "A">> \in DOMAIN cache'
        <5>1. cache'[<<x, "A">>].age = 0
          BY <4>2, StoredAges
        <5>2. cache'[<<x, "A">>].ttl \in Nat
          BY <4>2, StubReply, StoredStocked DEF Stocked, Entries
        <5>3. PICK l \in Nat : l = Larger(cache'[<<x, "A">>].ttl, Floor)
          BY <5>2, ResolverAssumption DEF Larger
        <5>4. 0 <= l + (IF slow = {} THEN 0 ELSE 1)
          BY <5>3
        <5> QED
          BY <4>2, <5>1, <5>3, <5>4 DEF Good
      <4> QED
        BY <4>1, <4>2 DEF Cached
    <3>6. LeadsOn(x)'
      BY <3>4, <3>5 DEF LeadsOn
    <3> QED
      BY <3>1, <3>3, <3>6 DEF Value
  <2> QED
    BY <2>3, <2>4
<1>4. n \in T /\ m \notin T /\ T \in SUBSET Names
  BY <1>1
<1> HIDE DEF T
<1> QED
  BY <1>3, <1>4 DEF Way

\* Stacks

LEMMA StubDropped ==
  ASSUME NEW s \in Seq(GoodFrames), s # <<>>, StubStack(s)
  PROVE  /\ StubStack(Dropped(s))
         /\ Dropped(s) # <<>> => Dropped(s)[Len(Dropped(s))].pc = "pass"
<1>1. PICK r : r = Dropped(s)
  OBVIOUS
<1>2. PICK n \in Nat : n = Len(s) - 1
  BY TopDropped, SMT
<1>3. /\ Len(s) = n + 1 /\ Len(r) = n /\ r \in Seq(GoodFrames)
      /\ \A i \in 1 .. n : r[i] = s[i]
  BY <1>1, <1>2, TopDropped
<1>4. \A i \in 1 .. n : i \in 1 .. n + 1 /\ i # n + 1
  BY SMT
<1>5. \A i \in 1 .. n : r[i].fn = "stub" /\ r[i].pc = "pass"
  BY <1>3, <1>4 DEF StubStack
<1>6. r # <<>> => n \in 1 .. n
  BY <1>3, EmptySeq, SMT
<1> QED
  BY <1>1, <1>3, <1>5, <1>6 DEF StubStack

LEMMA StubReplaced ==
  ASSUME NEW s \in Seq(GoodFrames), s # <<>>, StubStack(s), NEW f \in GoodFrames, f.fn = "stub"
  PROVE  StubStack(Replaced(s, f))
<1>1. PICK r : r = Replaced(s, f)
  OBVIOUS
<1>2. PICK n \in Nat : n = Len(s) - 1
  BY TopDropped, SMT
<1>3. /\ Len(s) = n + 1 /\ Len(r) = n + 1 /\ r[n + 1] = f
      /\ \A i \in 1 .. n : r[i] = s[i]
  <2>1. /\ Len(s) \in Nat /\ Len(r) = Len(s) /\ r[Len(s)] = f
        /\ \A i \in 1 .. Len(s) - 1 : r[i] = s[i]
    BY <1>1, TopReplaced
  <2>2. Len(s) = n + 1
    BY <1>2, <2>1
  <2> QED
    BY <1>2, <2>1, <2>2
<1>4. \A i \in 1 .. n + 1 : i = n + 1 \/ i \in 1 .. n
  BY SMT
<1>5. \A i \in 1 .. n + 1 : s[i].fn = "stub" /\ (i # n + 1 => s[i].pc = "pass")
  BY <1>3 DEF StubStack
<1> QED
  BY <1>1, <1>3, <1>4, <1>5 DEF StubStack

LEMMA StubPushed ==
  ASSUME NEW s \in Seq(GoodFrames), StubStack(s), s # <<>>, s[Len(s)].pc = "pass",
         NEW f \in GoodFrames, f.fn = "stub"
  PROVE  /\ StubStack(Append(s, f)) /\ Append(s, f) # <<>>
         /\ Append(s, f)[Len(Append(s, f))] = f
<1>1. PICK r : r = Append(s, f)
  OBVIOUS
<1>2. PICK n \in Nat : n = Len(s)
  BY LenProperties
<1>3. /\ Len(r) = n + 1 /\ r # <<>> /\ r[n + 1] = f
      /\ \A i \in 1 .. n : r[i] = s[i]
  BY <1>1, <1>2, AppendProperties
<1>4. \A i \in 1 .. n + 1 : i = n + 1 \/ i \in 1 .. n
  BY SMT
<1>5. \A i \in 1 .. n : s[i].fn = "stub" /\ s[i].pc = "pass"
  BY <1>2 DEF StubStack
<1> QED
  BY <1>1, <1>3, <1>4, <1>5 DEF StubStack

\* The steps of the task

LEMMA TopStub ==
  ASSUME ServerInv, AloneInv, NEW t \in Tasks, stack[t] # <<>>
  PROVE  /\ stack[t] \in Seq(GoodFrames) /\ StubStack(stack[t])
         /\ Top(t) \in GoodFrames /\ Top(t).fn = "stub" /\ Top(t).name \in Names
         /\ job[t] # None /\ job[t].name \in Names
         /\ Top(t).pc \in {"start", "asked", "pass"}
<1>1. stack[t] \in Seq(GoodFrames) /\ Len(stack[t]) \in Nat \ {0} /\ Top(t) \in GoodFrames
  BY TopGood DEF ServerInv
<1>2. /\ StubStack(stack[t]) /\ job[t] # None
      /\ Top(t).pc \in {"start", "asked", "pass"}
  BY DEF AloneInv, OnItsWay
<1>3. Len(stack[t]) \in 1 .. Len(stack[t])
  BY <1>1, SMT
<1>4. Top(t).fn = "stub"
  BY <1>2, <1>3 DEF StubStack, Top
<1>5. Top(t).name \in Names
  BY <1>1 DEF GoodFrames, Frames
<1>6. job[t].name \in Names
  BY <1>2, ServerAssumption DEF ServerInv, Jobs
<1> QED
  BY <1>1, <1>2, <1>4, <1>5, <1>6

LEMMA RunsUnasked == ASSUME ServerInv, NEW t \in Tasks, running = t PROVE query[t] = None
  BY DEF ServerInv, ResolverInv, Waiting

LEMMA EmptyStack ==
  ASSUME NEW t \in Tasks, stack'[t] = <<>>, query'[t] = None,
         running' = t => outcome'[t] # "found"
  PROVE  OnItsWay(t)'
<1>1. 1 .. Len(<<>>) = {}
  BY SMT
<1> QED
  BY <1>1 DEF OnItsWay, StubStack, Resolved

LEMMA RaiseWay ==
  ASSUME ServerInv, NEW t \in Tasks, Running(t), Raise(t) PROVE OnItsWay(t)'
<1>1. stack'[t] = <<>> /\ outcome'[t] = "exception" /\ query'[t] = None
  BY RunsUnasked DEF Raise, Running, ServerInv, ResolverInv
<1> QED
  BY <1>1, EmptyStack

LEMMA FoundKeeps ==
  ASSUME NEW t, Found(t), UNCHANGED <<cache, slow, job, running>> PROVE Found(t)'
  BY DEF Found, Way, LeadsOn, Good, Cached, Live, Valid, Value

LEMMA ReturnWay ==
  ASSUME ServerInv, AloneInv, NEW t \in Tasks, Running(t), NEW v, Return(t, v),
         Found(t), UNCHANGED <<cache, slow, job>>
  PROVE  OnItsWay(t)'
<1>1. PICK s : s = stack[t]
  OBVIOUS
<1>2. /\ s \in Seq(GoodFrames) /\ s # <<>> /\ StubStack(s) /\ job[t] # None
  BY <1>1, TopStub DEF Running
<1>3. StubStack(Dropped(s)) /\ (Dropped(s) # <<>> => Dropped(s)[Len(Dropped(s))].pc = "pass")
  BY <1>2, StubDropped
<1>4. stack'[t] = Dropped(s) /\ UNCHANGED <<query, running>>
  BY <1>1 DEF Return, Below, Dropped, ServerInv, ResolverInv
<1>5. query'[t] = None
  BY <1>4, RunsUnasked DEF Running
<1>6. Found(t)'
  BY <1>4, FoundKeeps
<1>7. stack'[t] # <<>> => Top(t)'.pc = "pass"
  BY <1>3, <1>4 DEF Top
<1> QED
  BY <1>2, <1>3, <1>4, <1>5, <1>6, <1>7 DEF OnItsWay

LEMMA HitAddressWay ==
  ASSUME ServerInv, AloneInv, NEW t \in Tasks, HitAddress(t), UNCHANGED <<slow, job>>
  PROVE  OnItsWay(t)'
<1>1. /\ Running(t) /\ Reads(Top(t)) /\ Live(<<Top(t).name, "A">>)
      /\ Return(t, Value(<<Top(t).name, "A">>)) /\ UNCHANGED cache
  BY DEF HitAddress
<1>2. Top(t).name \in Way(job[t].name)
  BY <1>1 DEF AloneInv, OnItsWay, Reads, Running
<1>3. Found(t)
  BY <1>1, <1>2 DEF Found, Running
<1> QED
  BY <1>1, <1>3, ReturnWay

LEMMA PassWay ==
  ASSUME ServerInv, AloneInv, NEW t \in Tasks, Pass(t), UNCHANGED <<slow, job>>
  PROVE  OnItsWay(t)'
<1>1. Running(t) /\ Top(t).pc = "pass" /\ Return(t, ret) /\ UNCHANGED cache
  BY DEF Pass
<1>2. Found(t)
  BY <1>1 DEF AloneInv, OnItsWay, Running
<1> QED
  BY <1>1, <1>2, ReturnWay

\* Lookups of addresses, and of the alias of m, cut no way to m.
LEMMA WayLookedUp ==
  ASSUME NEW n, NEW m \in Way(n), NEW K, cache' = LookedUp(K), UNCHANGED slow,
         \A x \in Names \ {m} : <<x, "CNAME">> \notin K
  PROVE  m \in Way(n)'
<1>1. DOMAIN cache' \subseteq DOMAIN cache /\ \A k \in DOMAIN cache' : cache'[k] = cache[k]
  BY LookedUpShrinks DEF Shrinks
<1>2. ASSUME NEW x \in Names \ {m}, LeadsOn(x)
      PROVE  LeadsOn(x)' /\ Value(<<x, "CNAME">>)' = Value(<<x, "CNAME">>)
  <2>1. <<x, "CNAME">> \in DOMAIN cache'
    BY <1>2 DEF LookedUp, LeadsOn, Good
  <2>2. Good(<<x, "CNAME">>)'
    BY <1>1, <1>2, <2>1 DEF LeadsOn, Good
  <2>3. Cached(<<x, "A">>)' => Good(<<x, "A">>)'
    BY <1>1, <1>2 DEF LeadsOn, Good, Cached
  <2> QED
    BY <1>1, <2>1, <2>2, <2>3 DEF LeadsOn, Value
<1> QED
  BY <1>2, WayKeeps

LEMMA HitAliasWay ==
  ASSUME ServerInv, AloneInv, NEW t \in Tasks, HitAlias(t), UNCHANGED <<slow, job>>
  PROVE  OnItsWay(t)'
<1>1. PICK f, x, v, g :
        /\ f = Top(t) /\ x = f.name /\ v = Value(<<x, "CNAME">>)
        /\ g = [f EXCEPT !.name = v, !.fresh = FALSE, !.pc = "start"]
        /\ Running(t) /\ Reads(f) /\ ~Live(<<x, "A">>) /\ Live(<<x, "CNAME">>)
        /\ cache' = LookedUp({<<x, "A">>}) /\ Call(t, g, "pass")
  BY DEF HitAlias
<1>2. PICK n : n = job[t].name
  OBVIOUS
<1>3. /\ stack[t] \in Seq(GoodFrames) /\ stack[t] # <<>> /\ StubStack(stack[t])
      /\ f \in GoodFrames /\ f.fn = "stub" /\ x \in Names /\ job[t] # None /\ n \in Names
  BY <1>1, <1>2, TopStub DEF Running
<1>4. x \in Way(n)
  BY <1>1, <1>2 DEF AloneInv, OnItsWay, Reads, Running
<1>5. x \in Way(n)'
  <2>1. \A y \in Names : <<y, "CNAME">> \notin {<<x, "A">>}
    OBVIOUS
  <2> QED
    BY <1>1, <1>4, <2>1, WayLookedUp
<1>6. Stocked(cache) /\ Stocked(cache')
  BY <1>1, CacheStocked DEF ServerInv
<1>7. LeadsOn(x)' /\ Value(<<x, "CNAME">>)' = v
  <2>1. /\ <<x, "CNAME">> \in DOMAIN cache' /\ cache'[<<x, "CNAME">>] = cache[<<x, "CNAME">>]
        /\ <<x, "A">> \notin DOMAIN cache'
    BY <1>1 DEF LookedUp, Live
  <2>2. cache[<<x, "CNAME">>] \in Entries
    BY <1>6, <1>1 DEF Live, Stocked
  <2>3. PICK a, l \in Nat :
          a = cache[<<x, "CNAME">>].age /\ l = Larger(cache[<<x, "CNAME">>].ttl, Floor)
    BY <2>2, ResolverAssumption DEF Entries, Larger
  <2>4. a <= l
    BY <1>1, <2>3 DEF Live, Valid
  <2>5. a <= l + (IF slow = {} THEN 0 ELSE 1)
    BY <2>3, <2>4
  <2>6. Good(<<x, "CNAME">>)'
    BY <2>1, <2>3, <2>5 DEF Good
  <2> QED
    BY <1>1, <2>1, <2>6 DEF LeadsOn, Value, Cached
<1>8. v \in Way(n)'
  <2>1. Stocked(cache)' /\ x \in Way(n)' /\ LeadsOn(x)'
    BY <1>5, <1>6, <1>7
  <2>2. v \in Names
    BY <1>1, <1>6, AliasIsName DEF Live, Cached
  <2> QED
    BY <1>7, <2>1, <2>2 DEF Way
<1>9. v \in Names
  BY <1>1, <1>6, AliasIsName DEF Live, Cached
<1>10. g \in GoodFrames /\ g.fn = "stub" /\ g.name = v /\ g.pc = "start"
  BY <1>1, <1>3, <1>9 DEF GoodFrames, Frames
<1>11. CASE Raise(t)
  BY <1>1, <1>11, RaiseWay
<1>12. CASE /\ stack' = [stack EXCEPT ![t] = Append(At(t, "pass"), g)]
            /\ UNCHANGED <<query, running, ret, outcome>>
  <2>1. PICK h \in GoodFrames : h = [f EXCEPT !.pc = "pass"] /\ h.fn = "stub" /\ h.pc = "pass"
    <3>1. MayGo(f, "pass")
      BY <1>3 DEF MayGo
    <3> QED
      BY <1>3, <3>1, FrameAt
  <2>2. PICK s : s = Replaced(stack[t], h)
    OBVIOUS
  <2>3. s = At(t, "pass")
    BY <1>1, <2>1, <2>2 DEF At, Below, Replaced, Dropped
  <2>4. StubStack(s) /\ s \in Seq(GoodFrames) /\ s # <<>> /\ s[Len(s)].pc = "pass"
    <3>1. StubStack(s)
      BY <1>3, <2>1, <2>2, StubReplaced
    <3>2. /\ s \in Seq(GoodFrames) /\ s # <<>>
          /\ Len(s) = Len(stack[t]) /\ s[Len(stack[t])] = h
      BY <1>3, <2>1, <2>2, TopReplaced
    <3> QED
      BY <2>1, <3>1, <3>2
  <2>5. PICK r : r = Append(s, g)
    OBVIOUS
  <2>6. StubStack(r) /\ r # <<>> /\ r[Len(r)] = g
    BY <2>4, <2>5, <1>10, StubPushed
  <2>7. stack'[t] = r
    BY <1>12, <2>3, <2>5 DEF ServerInv, ResolverInv
  <2>8. Top(t)' = g
    BY <2>6, <2>7 DEF Top
  <2>9. query'[t] = None
    BY <1>1, <1>12, RunsUnasked DEF Running
  <2>10. Top(t)'.name \in Way(job[t].name)'
    BY <1>2, <1>8, <1>10, <2>8
  <2> QED
    BY <1>3, <1>10, <2>6, <2>7, <2>8, <2>9, <2>10 DEF OnItsWay, Resolved
<1> QED
  BY <1>1, <1>11, <1>12 DEF Call

LEMMA MissStubWay ==
  ASSUME ServerInv, AloneInv, NEW t \in Tasks, MissStub(t), UNCHANGED <<slow, job>>
  PROVE  OnItsWay(t)'
<1>1. PICK f, x :
        /\ f = Top(t) /\ x = f.name /\ Running(t) /\ f.pc = "start"
        /\ cache' = LookedUp(MissedKeys(f)) /\ Ask(t, <<StubAddr, x, "A">>)
  BY DEF MissStub, Misses
<1>2. PICK n : n = job[t].name
  OBVIOUS
<1>3. /\ stack[t] \in Seq(GoodFrames) /\ stack[t] # <<>> /\ StubStack(stack[t])
      /\ f \in GoodFrames /\ f.fn = "stub" /\ x \in Names /\ job[t] # None
  BY <1>1, TopStub DEF Running
<1>4. x \in Way(n)
  BY <1>1, <1>2 DEF AloneInv, OnItsWay, Running
<1>5. x \in Way(n)'
  <2>1. \A y \in Names \ {x} : <<y, "CNAME">> \notin MissedKeys(f)
    BY <1>1 DEF MissedKeys
  <2> QED
    BY <1>1, <1>4, <2>1, WayLookedUp
<1>6. PICK g \in GoodFrames :
        g = [f EXCEPT !.pc = "asked"] /\ g.fn = "stub" /\ g.pc = "asked" /\ g.name = x
  <2>1. PICK g \in GoodFrames :
          g = [f EXCEPT !.pc = "asked"] /\ g.fn = "stub" /\ g.pc = "asked"
    BY <1>3, FrameAt DEF MayGo
  <2>2. g.name = x
    BY <1>1, <1>3, <2>1 DEF GoodFrames, Frames
  <2> QED
    BY <2>1, <2>2
<1>7. PICK r : r = Replaced(stack[t], g)
  OBVIOUS
<1>8. r = At(t, "asked")
  BY <1>1, <1>6, <1>7 DEF At, Below, Replaced, Dropped
<1>9. StubStack(r) /\ r # <<>> /\ r[Len(r)] = g
  <2>1. StubStack(r)
    BY <1>3, <1>6, <1>7, StubReplaced
  <2>2. r # <<>> /\ Len(r) = Len(stack[t]) /\ r[Len(stack[t])] = g
    BY <1>3, <1>6, <1>7, TopReplaced
  <2> QED
    BY <2>1, <2>2
<1>10. /\ stack'[t] = r /\ query'[t] = <<StubAddr, x, "A">> /\ running' = None
  BY <1>1, <1>8 DEF Ask, ServerInv, ResolverInv
<1>11. Top(t)' = g
  BY <1>9, <1>10 DEF Top
<1>12. Top(t)'.name \in Way(job[t].name)'
  BY <1>2, <1>5, <1>6, <1>11
<1>13. running' # t
  BY <1>10, ResolverAssumption
<1> QED
  BY <1>3, <1>6, <1>9, <1>10, <1>11, <1>12, <1>13 DEF OnItsWay, Resolved

LEMMA AnsweredWay ==
  ASSUME Alone, ServerInv, AloneInv, NEW t \in Tasks, Answered(t), UNCHANGED <<slow, job>>
  PROVE  KnownAliases(cache') /\ OnItsWay(t)'
<1>1. PICK x, n :
        /\ x = Top(t).name /\ n = job[t].name
        /\ query[t] = <<StubAddr, x, "A">> /\ running = None
  BY DEF Answered, AloneInv, OnItsWay
<1>2. stack[t] # <<>> /\ Top(t).pc = "asked"
  BY DEF Answered, ServerInv, ResolverInv, Waiting
<1>3. x \in Names /\ job[t] # None /\ n \in Names /\ x \in Way(n)
  BY <1>1, <1>2, TopStub DEF AloneInv, OnItsWay
<1>4. PICK reply \in Replies[<<StubAddr, x, "A">>] : cache' = Stored(reply, cache)
  BY <1>1 DEF Answered
<1>5. Stocked(cache) /\ KnownAliases(cache)
  BY DEF ServerInv, ResolverInv, AloneInv
<1>6. x \in Way(n)'
  BY <1>3, <1>4, <1>5, WayStored DEF Alone
<1>7. /\ query'[t] = None /\ running' = t /\ UNCHANGED <<stack, outcome>>
  BY DEF Answered, ServerInv, ResolverInv
<1>8. KnownAliases(cache')
  <2> SUFFICES ASSUME NEW y \in Names, <<y, "CNAME">> \in DOMAIN cache'
               PROVE  GivesAlias(y, cache'[<<y, "CNAME">>].val)
    BY DEF KnownAliases
  <2>1. CASE \E i \in DOMAIN reply : /\ reply[i].key = <<y, "CNAME">>
                                     /\ cache'[<<y, "CNAME">>].val = reply[i].val
    BY <1>3, <1>4, <2>1 DEF GivesAlias
  <2>2. CASE /\ <<y, "CNAME">> \in DOMAIN cache
             /\ cache'[<<y, "CNAME">>] = cache[<<y, "CNAME">>]
    BY <1>5, <2>2 DEF KnownAliases
  <2> QED
    BY <1>3, <1>4, <2>1, <2>2, StoredEntry, StubReply
<1>9. Top(t)' = Top(t) /\ stack'[t] # <<>> /\ StubStack(stack'[t])
  BY <1>2, <1>3, <1>7, TopStub DEF Top
<1>10. Top(t)'.name \in Way(job[t].name)'
  BY <1>1, <1>6, <1>9
<1> QED
  BY <1>2, <1>3, <1>7, <1>8, <1>9, <1>10 DEF OnItsWay, Resolved

LEMMA UnansweredWay ==
  ASSUME ServerInv, NEW t \in Tasks, Unanswered(t) PROVE OnItsWay(t)'
<1>1. stack'[t] = <<>> /\ query'[t] = None /\ outcome'[t] \in {"exception", "cancelled"}
  BY ResolverAssumption DEF Unanswered, ServerInv, ResolverInv
<1> QED
  BY <1>1, EmptyStack

LEMMA AliasesShrink == ASSUME KnownAliases(cache), Shrinks PROVE KnownAliases(cache')
  BY DEF KnownAliases, Shrinks

LEMMA ResolverWay ==
  ASSUME Alone, ServerInv, AloneInv, NEW t \in Tasks, ResolverStep(t), UNCHANGED <<slow, job>>
  PROVE  KnownAliases(cache') /\ OnItsWay(t)'
<1>1. KnownAliases(cache)
  BY DEF AloneInv
<1>2. stack[t] # <<>> => Top(t).fn = "stub"
  BY TopStub
<1>3. CASE HitAddress(t) \/ Pass(t)
  <2>1. UNCHANGED cache
    BY <1>3 DEF HitAddress, Pass
  <2> QED
    BY <1>1, <1>3, <2>1, HitAddressWay, PassWay
<1>4. CASE HitAlias(t)
  <2>1. Shrinks
    BY <1>4, LookedUpShrinks DEF HitAlias
  <2> QED
    BY <1>1, <1>4, <2>1, HitAliasWay, AliasesShrink
<1>5. CASE MissStub(t)
  <2>1. Shrinks
    BY <1>5, LookedUpShrinks DEF MissStub
  <2> QED
    BY <1>1, <1>5, <2>1, MissStubWay, AliasesShrink
<1>6. CASE NotFound(t)
  <2>1. Shrinks /\ Running(t) /\ Raise(t)
    BY <1>6, LookedUpShrinks DEF NotFound
  <2> QED
    BY <1>1, <2>1, RaiseWay, AliasesShrink
<1>7. CASE Answered(t)
  BY <1>7, AnsweredWay
<1>8. CASE Unanswered(t)
  <2>1. UNCHANGED cache
    BY <1>8 DEF Unanswered
  <2> QED
    BY <1>1, <1>8, <2>1, UnansweredWay
<1>9. CASE MissName(t) \/ HasServer(t) \/ HasNoServer(t) \/ AskName(t)
  BY <1>2, <1>9 DEF MissName, HasServer, HasNoServer, AskName, Running
<1>10. CASE NsKnown(t) \/ NsAskRoot(t) \/ NsFind(t) \/ NsAsk(t) \/ NsAgain(t) \/ NsGivesUp(t)
  BY <1>2, <1>10 DEF NsKnown, NsAskRoot, NsFind, NsAsk, NsAgain, NsGivesUp, StartsNs, Running
<1> QED
  BY <1>3, <1>4, <1>5, <1>6, <1>7, <1>8, <1>9, <1>10 DEF ResolverStep

\* The steps of the server.  There is no task but t.

LEMMA OnlyTask == ASSUME Alone, NEW t \in Tasks PROVE \A u \in Tasks : u = t
  BY DEF Alone

LEMMA NothingSent == ASSUME out' = None PROVE AnswersGood'
  BY DEF AnswersGood, AnswerHasAddress, AnswerIsRecent

LEMMA ResolveWay ==
  ASSUME Alone, ServerInv, AloneInv, NEW t \in Tasks, Resolve(t) PROVE AloneInv'
<1>1. ResolverStep(t) /\ out' = None /\ UNCHANGED <<recursive, job, slow, saved>>
  BY DEF Resolve
<1>2. KnownAliases(cache') /\ OnItsWay(t)'
  BY <1>1, ResolverWay
<1>3. \A u \in Tasks : OnItsWay(u)'
  BY <1>2, OnlyTask
<1> QED
  BY <1>1, <1>2, <1>3, NothingSent DEF AloneInv, KnownAliases

LEMMA FinishWay ==
  ASSUME Alone, ServerInv, AloneInv, NEW t \in Tasks, Resolved(t), Finish(t),
         KnownAliases(cache'), AnswersGood'
  PROVE  AloneInv'
<1>1. /\ stack'[t] = <<>> /\ running' # t /\ query'[t] = None
      /\ UNCHANGED <<recursive, saved>>
  BY RunsUnasked, ResolverAssumption DEF Finish, Resolved
<1>2. OnItsWay(t)'
  BY <1>1, EmptyStack
<1>3. \A u \in Tasks : OnItsWay(u)'
  BY <1>2, OnlyTask
<1> QED
  BY <1>1, <1>3 DEF AloneInv, KnownAliases

LEMMA ReplyWay == ASSUME Alone, ServerInv, AloneInv, NEW t \in Tasks, Reply(t) PROVE AloneInv'
<1>1. Resolved(t) /\ Finish(t) /\ UNCHANGED cache
  BY DEF Reply
<1>2. PICK n : n = job[t].name
  OBVIOUS
<1>3. n \in Names
  <2>1. job[t] \in Jobs
    BY <1>1 DEF Resolved, ServerInv, Busy
  <2> QED
    BY <1>2, <2>1, ServerAssumption DEF Jobs
<1>4. AnswersGood'
  <2>1. CASE outcome[t] = "found" /\ Ends(n) /\ out' = Answer(n)
    <3>1. PICK m \in Way(n) : Live(<<m, "A">>)
      BY <1>1, <1>2, <2>1 DEF AloneInv, OnItsWay, Found
    <3>2. /\ \E r \in out'.records : r.key[2] = "A"
          /\ \A r \in out'.records : r.entry.age <= Larger(r.entry.ttl, Floor) + 1
      BY <1>3, <2>1, <3>1, AnswerGood DEF ServerInv, ResolverInv
    <3> QED
      BY <3>2 DEF AnswersGood, AnswerHasAddress, AnswerIsRecent
  <2>2. CASE out' = NxDomain(n)
    BY <2>2 DEF AnswersGood, AnswerHasAddress, AnswerIsRecent, NxDomain
  <2> QED
    BY <1>2, <2>1, <2>2 DEF Reply
<1>5. KnownAliases(cache')
  BY <1>1 DEF AloneInv, KnownAliases
<1> QED
  BY <1>1, <1>4, <1>5, FinishWay

LEMMA RefreshedWay ==
  ASSUME Alone, ServerInv, AloneInv, NEW t \in Tasks, Refreshed(t) PROVE AloneInv'
<1>1. /\ Resolved(t) /\ Finish(t) /\ cache' = LookedUp({<<job[t].name, "A">>})
      /\ out' = None \/ \E addr : out' = Notice(job[t].name, addr)
  BY DEF Refreshed
<1>2. AnswersGood'
  BY <1>1 DEF AnswersGood, AnswerHasAddress, AnswerIsRecent, Notice
<1>3. KnownAliases(cache')
  BY <1>1, LookedUpShrinks, AliasesShrink DEF AloneInv
<1> QED
  BY <1>1, <1>2, <1>3, FinishWay

LEMMA CancelledWay ==
  ASSUME Alone, ServerInv, AloneInv, NEW t \in Tasks, Cancelled(t) PROVE AloneInv'
<1>1. Resolved(t) /\ Finish(t) /\ out' = None /\ UNCHANGED cache
  BY DEF Cancelled
<1>2. KnownAliases(cache')
  BY <1>1 DEF AloneInv, KnownAliases
<1> QED
  BY <1>1, <1>2, NothingSent, FinishWay

\* A request begins: the name asked for is on its own way.
LEMMA StartWay ==
  ASSUME Alone, ServerInv, AloneInv, NEW t \in Tasks, job[t] = None,
         NEW n \in Domains, NEW ignore, Start(t, n, ignore), out' = None,
         NEW j \in Jobs, j.name = n, job' = [job EXCEPT ![t] = j],
         KnownAliases(cache'), UNCHANGED <<recursive, saved>>
  PROVE  AloneInv'
<1>1. PICK f : f = StubFrame(n) /\ stack' = [stack EXCEPT ![t] = <<f>>]
  BY DEF Start, Outermost, AloneInv
<1>2. stack'[t] = <<f>> /\ job'[t] = j
  BY <1>1 DEF ServerInv, ResolverInv
<1>3. f.fn = "stub" /\ f.pc = "start" /\ f.name = n
  BY <1>1 DEF StubFrame
<1>4. Len(<<f>>) = 1 /\ <<f>>[1] = f /\ <<f>> # <<>>
  OBVIOUS
<1>5. StubStack(stack'[t])
  <2>1. \A i \in 1 .. 1 : i = 1
    BY SMT
  <2> QED
    BY <1>2, <1>3, <1>4, <2>1 DEF StubStack
<1>6. Top(t)' = f
  BY <1>2, <1>4 DEF Top
<1>7. query'[t] = None
  BY DEF Start, ServerInv, Busy
<1>8. n \in Way(n)'
  BY ServerAssumption DEF Way
<1>9. Top(t)'.name \in Way(job[t].name)'
  BY <1>2, <1>3, <1>6, <1>8
<1>10. j # None
  BY ServerAssumption
<1>11. OnItsWay(t)'
  BY <1>2, <1>3, <1>4, <1>5, <1>6, <1>7, <1>9, <1>10 DEF OnItsWay, Resolved
<1>12. \A u \in Tasks : OnItsWay(u)'
  BY <1>11, OnlyTask
<1> QED
  BY <1>12, NothingSent DEF AloneInv, KnownAliases

LEMMA QueryWay ==
  ASSUME Alone, ServerInv, AloneInv, NEW t \in Tasks, NEW n \in Domains, Query(t, n)
  PROVE  AloneInv'
<1>1. PICK j : /\ j = [kind |-> "query", name |-> n, before |-> None]
               /\ job[t] = None /\ job' = [job EXCEPT ![t] = j]
               /\ Start(t, n, FALSE) /\ out' = None
               /\ UNCHANGED <<cache, recursive, saved>>
  BY DEF Query
<1>2. j \in Jobs /\ j.name = n
  BY <1>1 DEF Jobs
<1>3. KnownAliases(cache')
  BY <1>1 DEF AloneInv, KnownAliases
<1> QED
  BY <1>1, <1>2, <1>3, StartWay

LEMMA RefreshWay ==
  ASSUME Alone, ServerInv, AloneInv, NEW t \in Tasks, NEW n \in Domains, Refresh(t, n)
  PROVE  AloneInv'
<1>1. PICK b, j :
        /\ b = IF Live(<<n, "A">>) THEN Value(<<n, "A">>) ELSE None
        /\ j = [kind |-> "refresh", name |-> n, before |-> b]
        /\ job[t] = None /\ job' = [job EXCEPT ![t] = j]
        /\ cache' = LookedUp({<<n, "A">>})
        /\ Start(t, n, TRUE) /\ out' = None
        /\ UNCHANGED <<recursive, saved>>
  BY DEF Refresh
<1>2. b \in Addrs \cup {None}
  BY <1>1, CacheStocked, LiveFits DEF ServerInv
<1>3. j \in Jobs /\ j.name = n
  BY <1>1, <1>2 DEF Jobs
<1>4. KnownAliases(cache')
  BY <1>1, LookedUpShrinks, AliasesShrink DEF AloneInv
<1> QED
  BY <1>1, <1>3, <1>4, StartWay

\* Steps that leave the resolver alone.
LEMMA IdleWay ==
  ASSUME AloneInv, AnswersGood',
         UNCHANGED <<cache, stack, query, running, outcome, recursive, job, slow, saved>>
  PROVE  AloneInv'
<1>1. \A n : Way(n)' = Way(n)
  BY DEF Way, LeadsOn, Good, Cached, Value
<1>2. ASSUME NEW t \in Tasks PROVE OnItsWay(t)'
  <2>1. OnItsWay(t)
    BY DEF AloneInv
  <2>2. PICK n : n = job[t].name
    OBVIOUS
  <2>3. Way(job[t].name)' = Way(n) /\ Way(job[t].name) = Way(n)
    BY <1>1, <2>2
  <2>4. Found(t)' = Found(t)
    BY <2>3 DEF Found, Live, Valid
  <2> QED
    BY <2>1, <2>3, <2>4 DEF OnItsWay, Resolved, StubStack, Top
<1> QED
  BY <1>2 DEF AloneInv, KnownAliases

LEMMA SecondPassesWay ==
  ASSUME Alone, ServerInv, AloneInv, NEW n \in Domains, SecondPasses(n) PROVE AloneInv'
<1>1. /\ out' = None
      /\ UNCHANGED <<cache, stack, query, running, outcome, recursive, job, slow, saved>>
  BY DEF SecondPasses, resolverVars
<1> QED
  BY <1>1, NothingSent, IdleWay

LEMMA AgedAlike ==
  ASSUME NEW c, Stocked(c), NEW k \in DOMAIN c
  PROVE  /\ DOMAIN Aged(c) = DOMAIN c
         /\ Aged(c)[k].val = c[k].val /\ Aged(c)[k].ttl = c[k].ttl
         /\ c[k].age \in Nat /\ c[k].ttl \in Nat
         /\ Aged(c)[k].age \in Nat /\ Aged(c)[k].age <= c[k].age + 1
<1>1. c[k] \in [val : Addrs \cup Names, ttl : Nat, age : Nat]
  BY DEF Stocked, Entries
<1>2. PICK a : a = IF c[k].age < MaxAge THEN c[k].age + 1 ELSE c[k].age
  OBVIOUS
<1>3. a \in Nat /\ a <= c[k].age + 1
  BY <1>1, <1>2, ResolverAssumption
<1>4. Aged(c)[k] = [c[k] EXCEPT !.age = a]
  BY <1>2 DEF Aged
<1>5. DOMAIN Aged(c) = DOMAIN c
  BY DEF Aged
<1> QED
  BY <1>1, <1>3, <1>4, <1>5

\* The one tick that a request may see makes no entry of its way bad.
LEMMA GoodOnTick ==
  ASSUME Stocked(cache), slow = {}, slow' # {}, cache' = Aged(cache), NEW k, Good(k)
  PROVE  Good(k)'
<1>1. k \in DOMAIN cache
  BY DEF Good
<1>2. PICK a, b, l \in Nat :
        /\ a = cache[k].age /\ b = cache'[k].age /\ b <= a + 1
        /\ l = Larger(cache[k].ttl, Floor) /\ l = Larger(cache'[k].ttl, Floor)
  BY <1>1, AgedAlike, ResolverAssumption DEF Larger
<1>3. a <= l + 0
  BY <1>2 DEF Good
<1>4. b <= l + 1
  BY <1>2, <1>3
<1>5. k \in DOMAIN cache'
  BY <1>1, AgedAlike
<1> QED
  BY <1>2, <1>4, <1>5 DEF Good

LEMMA TickWay == ASSUME Alone, ServerInv, AloneInv, Tick PROVE AloneInv'
<1>1. /\ running = None /\ slow = {} /\ cache' = Aged(cache) /\ saved' = Aged(saved)
      /\ slow' = {t \in Tasks : job[t] # None} /\ out' = None
      /\ UNCHANGED <<stack, query, running, outcome, recursive, job>>
  BY DEF Tick
<1>2. Stocked(cache) /\ Stocked(saved)
  BY DEF ServerInv, ResolverInv
<1>3. KnownAliases(cache') /\ KnownAliases(saved')
  <2>1. ASSUME NEW c, Stocked(c), KnownAliases(c) PROVE KnownAliases(Aged(c))
    <3> SUFFICES ASSUME NEW m \in Names, <<m, "CNAME">> \in DOMAIN Aged(c)
                 PROVE  GivesAlias(m, Aged(c)[<<m, "CNAME">>].val)
      BY DEF KnownAliases
    <3>1. <<m, "CNAME">> \in DOMAIN c
      BY DEF Aged
    <3>2. Aged(c)[<<m, "CNAME">>].val = c[<<m, "CNAME">>].val
      BY <2>1, <3>1, AgedAlike
    <3> QED
      BY <2>1, <3>1, <3>2 DEF KnownAliases
  <2> QED
    BY <1>1, <1>2, <2>1 DEF AloneInv
<1>4. ASSUME NEW t \in Tasks PROVE OnItsWay(t)'
  <2>1. OnItsWay(t) /\ running # t /\ running' # t
    BY <1>1, ResolverAssumption DEF AloneInv
  <2>2. CASE stack[t] = <<>>
    BY <1>1, <2>1, <2>2 DEF OnItsWay, Resolved, Top
  <2>3. CASE stack[t] # <<>>
    <3>1. PICK n, x : n = job[t].name /\ x = Top(t).name
      OBVIOUS
    <3>2. /\ slow' # {} /\ x \in Way(n) /\ Top(t).pc # "pass"
      BY <1>1, <2>1, <2>3, <3>1 DEF OnItsWay, Found
    <3>3. ASSUME NEW y \in Names \ {x}, LeadsOn(y)
          PROVE  LeadsOn(y)' /\ Value(<<y, "CNAME">>)' = Value(<<y, "CNAME">>)
      <4>1. Good(<<y, "CNAME">>)' /\ (Good(<<y, "A">>) => Good(<<y, "A">>)')
        BY <1>1, <1>2, <3>2, <3>3, GoodOnTick DEF LeadsOn
      <4>2. DOMAIN cache' = DOMAIN cache
        BY <1>1 DEF Aged
      <4>3. <<y, "CNAME">> \in DOMAIN cache
        BY <3>3 DEF LeadsOn, Good
      <4>4. cache'[<<y, "CNAME">>].val = cache[<<y, "CNAME">>].val
        BY <1>1, <1>2, <4>3, AgedAlike
      <4> QED
        BY <3>3, <4>1, <4>2, <4>4 DEF LeadsOn, Cached, Value
    <3>4. x \in Way(n)'
      BY <3>2, <3>3, WayKeeps
    <3>5. Top(t)' = Top(t)
      BY <1>1 DEF Top
    <3>6. Top(t)'.name \in Way(job[t].name)'
      BY <1>1, <3>1, <3>4, <3>5
    <3> QED
      BY <1>1, <2>1, <2>3, <3>2, <3>5, <3>6 DEF OnItsWay, Resolved
  <2> QED
    BY <2>2, <2>3
<1> QED
  BY <1>1, <1>3, <1>4, NothingSent DEF AloneInv, KnownAliases

LEMMA RestartWay ==
  ASSUME Alone, ServerInv, AloneInv, NEW f, KnownAliases(f), Restart(f),
         KnownAliases(saved')
  PROVE  AloneInv'
<1>1. /\ cache' = Updated(Seed, f) /\ out' = None /\ UNCHANGED recursive /\ running' = None
      /\ \A t \in Tasks : stack'[t] = <<>> /\ query'[t] = None
  BY DEF Restart
<1>2. KnownAliases(cache')
  BY <1>1 DEF KnownAliases, Updated, GivesAlias
<1>3. \A t \in Tasks : OnItsWay(t)'
  BY <1>1, EmptyStack, ResolverAssumption
<1> QED
  BY <1>1, <1>2, <1>3, NothingSent DEF AloneInv, KnownAliases

LEMMA AloneInit == Init /\ ~recursive => AloneInv
<1> SUFFICES ASSUME Init, ~recursive PROVE AloneInv
  OBVIOUS
<1>1. /\ cache = Seed /\ saved = NoFile /\ out = None /\ running = None
      /\ \A t \in Tasks : stack[t] = <<>> /\ query[t] = None
  BY DEF Init, ResolverInit
<1>2. 1 .. Len(<<>>) = {}
  BY SMT
<1>3. \A t \in Tasks : OnItsWay(t)
  BY <1>1, <1>2, ResolverAssumption DEF OnItsWay, StubStack, Resolved
<1>4. KnownAliases(Seed) /\ KnownAliases(NoFile)
  BY DEF KnownAliases, GivesAlias, NoFile
<1> QED
  BY <1>1, <1>3, <1>4 DEF AloneInv, AnswersGood, AnswerHasAddress, AnswerIsRecent, KnownAliases

LEMMA AloneStep == Alone /\ ServerInv /\ AloneInv /\ [Next]_vars => AloneInv'
<1> SUFFICES ASSUME Alone, ServerInv, AloneInv, [Next]_vars PROVE AloneInv'
  OBVIOUS
<1>1. ASSUME NEW t \in Tasks, Serve(t) PROVE AloneInv'
  BY <1>1, ResolveWay, ReplyWay, RefreshedWay, CancelledWay DEF Serve
<1>2. ASSUME NEW t \in Tasks, NEW n \in Domains, Query(t, n) \/ Refresh(t, n)
      PROVE  AloneInv'
  BY <1>2, QueryWay, RefreshWay
<1>3. ASSUME NEW n \in Domains, SecondPasses(n) PROVE AloneInv'
  BY <1>3, SecondPassesWay
<1>4. CASE Tick
  BY <1>4, TickWay
<1>5. CASE Interrupt
  <2>1. Restart(cache) /\ saved' = cache /\ KnownAliases(cache)
    BY <1>5 DEF Interrupt, AloneInv
  <2> QED
    BY <2>1, RestartWay
<1>6. CASE Crash
  <2>1. PICK f \in {saved, NoFile} : Restart(f) /\ saved' = f
    BY <1>6 DEF Crash
  <2>2. KnownAliases(f)
    BY DEF AloneInv, KnownAliases, NoFile
  <2> QED
    BY <2>1, <2>2, RestartWay
<1>7. CASE UNCHANGED vars
  <2>1. UNCHANGED <<cache, stack, query, running, outcome, recursive, slow, saved, job, out>>
    BY <1>7 DEF vars, resolverVars, serverVars
  <2>2. AnswersGood'
    BY <2>1 DEF AloneInv, AnswersGood, AnswerHasAddress, AnswerIsRecent
  <2> QED
    BY <2>1, <2>2, IdleWay
<1> QED
  BY <1>1, <1>2, <1>3, <1>4, <1>5, <1>6, <1>7 DEF Next

\* With one request at a time, to a server with --ns, a reply without error gives
\* an address: the walk of lines 172-186 through whatever the cache then holds
\* ends at a name that has one.
THEOREM AnswersHaveAddress == Alone => (Spec /\ ~recursive => []AnswerHasAddress)
<1> SUFFICES ASSUME Alone PROVE Spec /\ ~recursive => []AnswerHasAddress
  OBVIOUS
<1>1. ServerInv /\ AloneInv /\ [Next]_vars => AloneInv'
  BY AloneStep
<1>2. AloneInv => AnswerHasAddress
  BY DEF AloneInv, AnswersGood
<1> QED
  BY <1>1, <1>2, AloneInit, Invariance, PTL DEF Spec

\* And a record of it had not expired when the request began, or no longer than a
\* tick ago, although the walk does not look at the age of what it meets.
THEOREM AnswersAreRecent == Alone => (Spec /\ ~recursive => []AnswerIsRecent)
<1> SUFFICES ASSUME Alone PROVE Spec /\ ~recursive => []AnswerIsRecent
  OBVIOUS
<1>1. ServerInv /\ AloneInv /\ [Next]_vars => AloneInv'
  BY AloneStep
<1>2. AloneInv => AnswerIsRecent
  BY DEF AloneInv, AnswersGood
<1> QED
  BY <1>1, <1>2, AloneInit, Invariance, PTL DEF Spec

\* The loop of the reply (172) ends: its walk meets an address, or a name
\* without an alias.
WalkEnds ==
  \A t \in Tasks : Resolved(t) /\ outcome[t] = "found" => Ends(job[t].name)

LEMMA WayEnds ==
  ASSUME Stocked(cache), NEW n \in Names, NEW m \in Way(n), Live(<<m, "A">>)
  PROVE  Ends(n)
<1> SUFFICES ASSUME \A x \in Chain(n) : ~Cached(<<x, "A">>) /\ Cached(<<x, "CNAME">>)
             PROVE  FALSE
  BY DEF Ends
<1>1. Chain(n) \in SUBSET Names /\ n \in Chain(n)
  BY DEF Chain
<1>2. ASSUME NEW x \in Chain(n) PROVE Value(<<x, "CNAME">>) \in Chain(n)
  <2>1. Value(<<x, "CNAME">>) \in Names
    BY AliasIsName
  <2> QED
    BY <2>1 DEF Chain
<1>3. m \in Chain(n)
  BY <1>1, <1>2 DEF Way
<1>4. Cached(<<m, "A">>)
  BY DEF Live, Cached
<1> QED
  BY <1>3, <1>4

\* The server's loop over aliases (172-186) never runs for ever: whenever a
\* resolution is over and has found something, the names the loop visits lead to
\* one with an address or without an alias.  That rests on what a stub resolver's
\* replies say and on one request at a time: between the resolution and the
\* reply nothing changes an alias of the way.
THEOREM WalksEnd == Alone => (Spec /\ ~recursive => []WalkEnds)
<1> SUFFICES ASSUME Alone PROVE Spec /\ ~recursive => []WalkEnds
  OBVIOUS
<1>1. ServerInv /\ AloneInv => WalkEnds
  <2> SUFFICES ASSUME ServerInv, AloneInv, NEW t \in Tasks, Resolved(t), outcome[t] = "found"
               PROVE  Ends(job[t].name)
    BY DEF WalkEnds
  <2>1. PICK m \in Way(job[t].name) : Live(<<m, "A">>)
    BY DEF AloneInv, OnItsWay, Found
  <2>2. Stocked(cache)
    BY DEF ServerInv, ResolverInv
  <2>3. job[t] \in Jobs
    BY DEF ServerInv, Busy, Resolved
  <2>4. job[t].name \in Names
    BY <2>3, ServerAssumption DEF Jobs
  <2> QED
    BY <2>1, <2>2, <2>4, WayEnds
<1>2. ServerInv /\ AloneInv /\ [Next]_vars => AloneInv'
  BY AloneStep
<1> QED
  BY <1>1, <1>2, AloneInit, Invariance, PTL DEF Spec

=============================================================================
