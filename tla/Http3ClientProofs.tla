-------------------------- MODULE Http3ClientProofs --------------------------
(***************************************************************************)
(* Proofs about Http3Server and Http3Client, for any set of streams, any   *)
(* applications and any other clients: what an application is told, how    *)
(* sessions end, and what requests, pushes and files of the client hold.   *)
(***************************************************************************)
EXTENDS Http3Client, NaturalsInduction, WellFoundedInduction, SequenceTheorems,
        FiniteSetTheorems, TLAPS

(* Only is recursive; what it computes is shown by the smallest length at  *)
(* which it would be wrong. *)

LEMMA Smallest ==
  ASSUME NEW S \in SUBSET Nat, S # {} PROVE \E m \in S : \A j \in S : m <= j
<1> DEFINE R == OpToRel(<, Nat)
<1>1. \E m \in S : \A j \in S : ~ (<<j, m>> \in R)
  <2> HIDE DEF R
  <2>1. IsWellFoundedOn(R, Nat)
    BY NatLessThanWellFounded DEF R
  <2> QED
    BY <2>1, WFMin
<1>2. \A j, m \in Nat : j < m => <<j, m>> \in R
  BY DEF OpToRel
<1> HIDE DEF R
<1>3. PICK m \in S : \A j \in S : ~ (<<j, m>> \in R)
  BY <1>1
<1>4. \A j \in S : ~ (j < m)
  BY <1>2, <1>3
<1> QED
  BY <1>3, <1>4

\* What one more item makes of what was kept.
Kept(x, e, S) == IF e \in S THEN Append(x, e) ELSE x

\* upTo[m] is what the first m items of seq come to, for every m up to n.
Filters(seq, S, n, upTo) ==
  upTo = [m \in 0 .. n |-> IF m = 0 THEN << >> ELSE Kept(upTo[m - 1], seq[m], S)]

LEMMA FilterStep ==
  ASSUME NEW seq, NEW S, NEW n \in Nat, NEW f, Filters(seq, S, n, f)
  PROVE  /\ f[0] = << >>
         /\ \A m \in 1 .. n : f[m] = Kept(f[m - 1], seq[m], S)
  BY DEF Filters

SameUpTo(s, t, k) == \A m \in 1 .. k : s[m] = t[m]

LEMMA FiltersAgree ==
  ASSUME NEW s, NEW t, NEW S, NEW n \in Nat, NEW k \in 0 .. n, NEW f, NEW g,
         Filters(s, S, n, f), Filters(t, S, k, g), SameUpTo(s, t, k)
  PROVE  \A m \in 0 .. k : f[m] = g[m]
<1> DEFINE bad == {m \in 0 .. k : f[m] # g[m]}
<1> SUFFICES ASSUME bad # {} PROVE FALSE
  OBVIOUS
<1>1. PICK m \in bad : \A j \in bad : m <= j
  <2>1. bad \in SUBSET Nat
    OBVIOUS
  <2> HIDE DEF bad
  <2> QED
    BY <2>1, Smallest
<1>0. k \in Nat
  OBVIOUS
<1>2. f[0] = << >> /\ g[0] = << >>
  <2>1. f[0] = << >>
    BY FilterStep
  <2>2. g[0] = << >>
    BY <1>0, FilterStep
  <2> QED
    BY <2>1, <2>2
<1>3. m \in 1 .. k /\ m - 1 \in 0 .. k /\ m - 1 \notin bad
  BY <1>1, <1>2
<1>4. f[m] = Kept(f[m - 1], s[m], S)
  BY <1>3, FilterStep
<1>5. g[m] = Kept(g[m - 1], t[m], S)
  BY <1>0, <1>3, FilterStep
<1> QED
  BY <1>1, <1>3, <1>4, <1>5 DEF SameUpTo

LEMMA FiltersExist ==
  ASSUME NEW s, NEW S, NEW n \in Nat PROVE \E f : Filters(s, S, n, f)
<1> DEFINE bad == {m \in Nat : ~ \E f : Filters(s, S, m, f)}
<1> SUFFICES ASSUME bad # {} PROVE FALSE
  OBVIOUS
<1>1. PICK m \in bad : \A j \in bad : m <= j
  BY Smallest
<1>2. Filters(s, S, 0, [j \in 0 .. 0 |-> << >>])
  BY DEF Filters
<1>3. m \in Nat \ {0} /\ m - 1 \in Nat /\ m - 1 \notin bad
  BY <1>1, <1>2
<1>4. PICK f : Filters(s, S, m - 1, f)
  BY <1>3
<1> DEFINE next == Kept(f[m - 1], s[m], S)
           g == [j \in 0 .. m |-> IF j = m THEN next ELSE f[j]]
<1>5. Filters(s, S, m, g)
  <2>1. \A j \in 0 .. m - 1 : g[j] = f[j]
    BY <1>3
  <2>2. g[0] = << >>
    <3>1. f[0] = << >>
      BY <1>3, <1>4, FilterStep
    <3>2. 0 \in 0 .. m - 1
      BY <1>3
    <3> QED
      BY <3>1, <3>2, <2>1
  <2>3. \A j \in 1 .. m :
          g[j] = Kept(g[j - 1], s[j], S)
    <3> SUFFICES ASSUME NEW j \in 1 .. m
                 PROVE  g[j] = Kept(g[j - 1], s[j], S)
      OBVIOUS
    <3>1. CASE j = m
      BY <3>1, <1>3
    <3>2. CASE j # m
      <4>1. j \in 1 .. m - 1 /\ j - 1 \in 0 .. m - 1
        BY <3>2, <1>3
      <4> QED
        BY <4>1, <2>1, <1>3, <1>4, FilterStep
    <3> QED
      BY <3>1, <3>2
  <2>4. g = [j \in 0 .. m |-> g[j]]
    OBVIOUS
  <2>5. \A j \in 0 .. m : j = 0 \/ j \in 1 .. m
    BY <1>3
  <2>6. \A j \in 1 .. m : j # 0
    BY <1>3
  <2> HIDE DEF g, next
  <2> QED
    BY <2>2, <2>3, <2>4, <2>5, <2>6 DEF Filters
<1> QED
  BY <1>1, <1>5

LEMMA OnlyIs ==
  ASSUME NEW T, NEW s \in Seq(T), NEW S, NEW f, Filters(s, S, Len(s), f)
  PROVE  Only(s, S) = f[Len(s)]
<1>1. PICK g : Filters(s, S, Len(s), g) /\ Only(s, S) = g[Len(s)]
  <2>1. \E g : Filters(s, S, Len(s), g)
    BY FiltersExist
  <2> QED
    BY <2>1 DEF Filters, Only, Kept
<1>2. SameUpTo(s, s, Len(s)) /\ Len(s) \in Nat /\ Len(s) \in 0 .. Len(s)
  BY LenProperties DEF SameUpTo
<1> QED
  BY <1>1, <1>2, FiltersAgree

-----------------------------------------------------------------------------
(* What Only does to the empty sequence, to one more item and to a sequence *)
(* appended. *)

LEMMA AppendConcat ==
  ASSUME NEW T, NEW s \in Seq(T), NEW u \in Seq(T), NEW e \in T
  PROVE  s \o Append(u, e) = Append(s \o u, e)
<1>1. <<e>> \in Seq(T)
  OBVIOUS
<1>2. s \o u \in Seq(T)
  BY ConcatProperties
<1> QED
  BY <1>1, <1>2, AppendIsConcat, ConcatAssociative

LEMMA OnlyEmpty == ASSUME NEW S PROVE Only(<< >>, S) = << >>
<1>1. PICK f : Filters(<< >>, S, 0, f)
  BY FiltersExist
<1>2. << >> \in Seq({}) /\ Len(<< >>) = 0
  OBVIOUS
<1>3. Only(<< >>, S) = f[Len(<< >>)]
  BY <1>1, <1>2, OnlyIs
<1>4. f[0] = << >>
  BY <1>1, FilterStep
<1> QED
  BY <1>2, <1>3, <1>4

LEMMA OnlyAppend ==
  ASSUME NEW T, NEW s \in Seq(T), NEW e \in T, NEW S
  PROVE  Only(Append(s, e), S) = IF e \in S THEN Append(Only(s, S), e) ELSE Only(s, S)
<1>0. PICK n \in Nat, t \in Seq(T) : n = Len(s) /\ t = Append(s, e)
  <2>1. Len(s) \in Nat /\ Append(s, e) \in Seq(T)
    BY AppendProperties, LenProperties
  <2> QED
    BY <2>1
<1>1. Len(t) = n + 1 /\ t[n + 1] = e /\ \A m \in 1 .. n : t[m] = s[m]
  BY <1>0, AppendProperties
<1>2. n + 1 \in Nat /\ n \in 0 .. n + 1 /\ n \in 0 .. n /\ n + 1 \in 1 .. n + 1 /\ (n + 1) - 1 = n
  OBVIOUS
<1>3. PICK f : Filters(t, S, n + 1, f)
  BY <1>2, FiltersExist
<1>4. PICK g : Filters(s, S, n, g)
  BY <1>2, FiltersExist
<1>5. f[n] = g[n]
  <2>1. PICK k \in Nat : k = n + 1 /\ n \in 0 .. k
    BY <1>2
  <2>2. Filters(t, S, k, f)
    BY <1>3, <2>1
  <2>3. SameUpTo(t, s, n)
    BY <1>1 DEF SameUpTo
  <2>4. \A m \in 0 .. n : f[m] = g[m]
    BY <1>4, <2>1, <2>2, <2>3, FiltersAgree
  <2> QED
    BY <1>2, <2>4
<1>6. f[n + 1] = Kept(f[n], e, S)
  BY <1>1, <1>2, <1>3, FilterStep
<1>7. Only(t, S) = f[n + 1] /\ Only(s, S) = g[n]
  BY <1>0, <1>1, <1>3, <1>4, OnlyIs
<1> QED
  BY <1>0, <1>5, <1>6, <1>7 DEF Kept

\* Induction on sequences, for a set of them.
LEMMA AllSequences ==
  ASSUME NEW T, NEW G, << >> \in G,
         \A u \in Seq(T), e \in T : u \in G => Append(u, e) \in G
  PROVE  \A t \in Seq(T) : t \in G
<1> DEFINE bad == {n \in Nat : \E t \in Seq(T) : t \notin G /\ Len(t) = n}
<1> SUFFICES ASSUME NEW t \in Seq(T), t \notin G PROVE FALSE
  OBVIOUS
<1>1. bad # {} /\ bad \in SUBSET Nat
  OBVIOUS
<1>2. PICK n \in bad : \A j \in bad : n <= j
  <2> HIDE DEF bad
  <2> QED
    BY <1>1, Smallest
<1>3. PICK v \in Seq(T) : v \notin G /\ Len(v) = n
  OBVIOUS
<1>4. PICK u \in Seq(T), e \in T : v = Append(u, e)
  BY <1>3, SequenceEmptyOrAppend
<1>5. Len(u) \in Nat /\ Len(v) = Len(u) + 1
  BY <1>4
<1>6. u \notin G
  BY <1>3, <1>4
<1> QED
  BY <1>2, <1>3, <1>5, <1>6

LEMMA OnlyType ==
  ASSUME NEW T, NEW S PROVE \A s \in Seq(T) : Only(s, S) \in Seq(T \cap S)
<1> DEFINE G == {s \in Seq(T) : Only(s, S) \in Seq(T \cap S)}
<1>1. << >> \in G
  <2>1. << >> \in Seq(T) /\ << >> \in Seq(T \cap S)
    OBVIOUS
  <2> QED
    BY <2>1, OnlyEmpty
<1>2. ASSUME NEW u \in Seq(T), NEW e \in T, u \in G PROVE Append(u, e) \in G
  <2>1. CASE e \in S
    <3>1. Only(Append(u, e), S) = Append(Only(u, S), e)
      BY <2>1, OnlyAppend
    <3>2. Append(Only(u, S), e) \in Seq(T \cap S)
      BY <1>2, <2>1, AppendProperties
    <3> QED
      BY <3>1, <3>2
  <2>2. CASE e \notin S
    BY <1>2, <2>2, OnlyAppend
  <2> QED
    BY <2>1, <2>2
<1> HIDE DEF G
<1>3. \A s \in Seq(T) : s \in G
  BY <1>1, <1>2, AllSequences
<1> QED
  BY <1>3 DEF G

LEMMA OnlyTypeOf ==
  ASSUME NEW T, NEW s \in Seq(T), NEW S
  PROVE  Only(s, S) \in Seq(T \cap S) /\ Only(s, S) \in Seq(T) /\ Only(s, S) \in Seq(S)
<1>1. Only(s, S) \in Seq(T \cap S)
  BY OnlyType
<1> QED
  BY <1>1, SeqMonotonic

LEMMA OnlyConcat ==
  ASSUME NEW T, NEW s \in Seq(T), NEW S
  PROVE  \A t \in Seq(T) : Only(s \o t, S) = Only(s, S) \o Only(t, S)
<1> DEFINE G == {t \in Seq(T) : Only(s \o t, S) = Only(s, S) \o Only(t, S)}
<1>0. \A t \in Seq(T) : Only(t, S) \in Seq(T)
  BY OnlyTypeOf
<1>1. << >> \in G
  BY <1>0, OnlyEmpty, ConcatEmptySeq
<1>2. ASSUME NEW u \in Seq(T), NEW e \in T, u \in G PROVE Append(u, e) \in G
  <2>1. s \o Append(u, e) = Append(s \o u, e) /\ s \o u \in Seq(T)
    BY AppendConcat, ConcatProperties
  <2>0. Only(s \o u, S) = Only(s, S) \o Only(u, S)
    BY <1>2
  <2>2. CASE e \in S
    <3>1. Only(s \o Append(u, e), S) = Append(Only(s \o u, S), e)
      BY <2>1, <2>2, OnlyAppend
    <3>2. Only(Append(u, e), S) = Append(Only(u, S), e)
      BY <2>2, OnlyAppend
    <3>3. Only(s, S) \o Append(Only(u, S), e) = Append(Only(s, S) \o Only(u, S), e)
      BY <1>0, AppendConcat
    <3> QED
      BY <2>0, <3>1, <3>2, <3>3, AppendProperties
  <2>3. CASE e \notin S
    <3>1. Only(s \o Append(u, e), S) = Only(s \o u, S)
      BY <2>1, <2>3, OnlyAppend
    <3>2. Only(Append(u, e), S) = Only(u, S)
      BY <2>3, OnlyAppend
    <3> QED
      BY <2>0, <3>1, <3>2, AppendProperties
  <2> QED
    BY <2>2, <2>3
<1> HIDE DEF G
<1>3. \A t \in Seq(T) : t \in G
  BY <1>1, <1>2, AllSequences
<1> QED
  BY <1>3 DEF G

LEMMA OnlyAll ==
  ASSUME NEW S PROVE \A s \in Seq(S) : Only(s, S) = s
<1> DEFINE G == {s \in Seq(S) : Only(s, S) = s}
<1>1. << >> \in G
  BY OnlyEmpty
<1>2. \A u \in Seq(S), e \in S : u \in G => Append(u, e) \in G
  BY OnlyAppend, AppendProperties
<1> HIDE DEF G
<1>3. \A s \in Seq(S) : s \in G
  BY <1>1, <1>2, AllSequences
<1> QED
  BY <1>3 DEF G
-----------------------------------------------------------------------------
(* Sequences *)

LEMMA PrefixOfConcat ==
  ASSUME NEW T, NEW x \in Seq(T), NEW b \in Seq(T)
  PROVE  IsPrefix(x, x \o b)
<1>1. /\ x \o b \in Seq(T) /\ Len(x \o b) = Len(x) + Len(b)
      /\ \A n \in 1 .. Len(x) : (x \o b)[n] = x[n]
  BY ConcatProperties, LenProperties
<1>2. SubSeq(x, 1, Len(x)) = SubSeq(x \o b, 1, Len(x))
  <2>1. PICK c \in Seq(T) : c = x \o b
    BY <1>1
  <2>2. Len(x) \in Nat /\ Len(x) <= Len(c) /\ \A n \in 1 .. Len(x) : c[n] = x[n]
    BY <1>1, <2>1, LenProperties
  <2> QED
    BY <2>1, <2>2
<1> QED
  BY <1>1, <1>2, LenProperties DEF IsPrefix

LEMMA PrefixOfAppend ==
  ASSUME NEW T, NEW x \in Seq(T), NEW y \in Seq(T), NEW e \in T, IsPrefix(x, y)
  PROVE  IsPrefix(x, Append(y, e))
<1>1. PICK c \in Seq(T) : c = Append(y, e)
  BY AppendProperties
<1>2. /\ Len(x) \in Nat /\ Len(y) \in Nat /\ Len(c) = Len(y) + 1
      /\ \A n \in 1 .. Len(y) : c[n] = y[n]
  BY <1>1, AppendProperties, LenProperties
<1>3. Len(x) <= Len(y) /\ SubSeq(x, 1, Len(x)) = SubSeq(y, 1, Len(x))
  BY DEF IsPrefix
<1>4. SubSeq(c, 1, Len(x)) = SubSeq(y, 1, Len(x))
  BY <1>2, <1>3
<1> QED
  BY <1>1, <1>2, <1>3, <1>4 DEF IsPrefix

LEMMA ElementsOfConcat ==
  ASSUME NEW T, NEW s \in Seq(T), NEW t \in Seq(T)
  PROVE  ToSet(s \o t) = ToSet(s) \cup ToSet(t)
<1>1. PICK c \in Seq(T) : c = s \o t
  BY ConcatProperties
<1>2. /\ Len(s) \in Nat /\ Len(t) \in Nat /\ Len(c) = Len(s) + Len(t)
      /\ \A n \in 1 .. Len(s) + Len(t) :
           c[n] = IF n <= Len(s) THEN s[n] ELSE t[n - Len(s)]
  BY <1>1, ConcatProperties, LenProperties
<1>3. /\ DOMAIN s = 1 .. Len(s) /\ DOMAIN t = 1 .. Len(t)
      /\ DOMAIN c = 1 .. Len(s) + Len(t)
  BY <1>2, LenProperties
<1>4. ASSUME NEW x \in ToSet(s) PROVE x \in ToSet(c)
  <2>1. PICK n \in 1 .. Len(s) : x = s[n]
    BY <1>3, <1>4 DEF ToSet
  <2>2. n \in 1 .. Len(s) + Len(t) /\ c[n] = x
    BY <1>2, <2>1
  <2> QED
    BY <1>3, <2>2 DEF ToSet
<1>5. ASSUME NEW x \in ToSet(t) PROVE x \in ToSet(c)
  <2>1. PICK n \in 1 .. Len(t) : x = t[n]
    BY <1>3, <1>5 DEF ToSet
  <2>2. PICK k \in Nat : /\ k \in 1 .. Len(s) + Len(t)
                          /\ ~ (k <= Len(s)) /\ k - Len(s) = n
    <3>1. PICK k \in Nat : k = n + Len(s)
      BY <1>2
    <3> QED
      BY <1>2, <3>1
  <2>3. c[k] = x
    BY <1>2, <2>1, <2>2
  <2> QED
    BY <1>3, <2>2, <2>3 DEF ToSet
<1>6. ASSUME NEW x \in ToSet(c) PROVE x \in ToSet(s) \cup ToSet(t)
  <2>1. PICK n \in 1 .. Len(s) + Len(t) : x = c[n]
    BY <1>3, <1>6 DEF ToSet
  <2>2. CASE n <= Len(s)
    <3>1. n \in 1 .. Len(s) /\ x = s[n]
      BY <1>2, <2>1, <2>2
    <3> QED
      BY <1>3, <3>1 DEF ToSet
  <2>3. CASE n > Len(s)
    <3>1. n - Len(s) \in 1 .. Len(t) /\ x = t[n - Len(s)]
      BY <1>2, <2>1, <2>3
    <3> QED
      BY <1>3, <3>1 DEF ToSet
  <2> QED
    BY <1>2, <2>2, <2>3
<1> QED
  BY <1>1, <1>4, <1>5, <1>6

LEMMA ElementOf ==
  ASSUME NEW e PROVE ToSet(<<e>>) = {e}
<1>1. DOMAIN <<e>> = {1} /\ <<e>>[1] = e
  OBVIOUS
<1> QED
  BY <1>1 DEF ToSet

LEMMA ElementsOfEmpty == ToSet(<< >>) = {}
  BY DEF ToSet

\* "fin" is last, if it is there.
EndsOnce(w) == \A n \in 1 .. Len(w) : w[n] = "fin" => n = Len(w)

LEMMA EndsOnceConcat ==
  ASSUME NEW T, NEW w \in Seq(T), NEW items \in Seq(T),
         "fin" \notin ToSet(w), EndsOnce(items)
  PROVE  EndsOnce(w \o items)
<1>1. PICK c \in Seq(T) : c = w \o items
  BY ConcatProperties
<1>2. /\ Len(w) \in Nat /\ Len(items) \in Nat /\ Len(c) = Len(w) + Len(items)
      /\ \A n \in 1 .. Len(w) + Len(items) :
           c[n] = IF n <= Len(w) THEN w[n] ELSE items[n - Len(w)]
  BY <1>1, ConcatProperties, LenProperties
<1>3. \A n \in 1 .. Len(w) : w[n] # "fin"
  BY LenProperties DEF ToSet
<1> SUFFICES ASSUME NEW n \in 1 .. Len(c), c[n] = "fin" PROVE n = Len(c)
  BY <1>1 DEF EndsOnce
<1>4. n > Len(w) /\ n - Len(w) \in 1 .. Len(items) /\ items[n - Len(w)] = "fin"
  BY <1>2, <1>3
<1>5. n - Len(w) = Len(items)
  BY <1>4 DEF EndsOnce
<1> QED
  BY <1>2, <1>4, <1>5

-----------------------------------------------------------------------------
(* What the application is told *)

Told1 == Events \cup {Connect}

LEMMA ConnectIsNoEvent == Connect \notin Events /\ MessageEvents \subseteq Events
  BY DEF Connect, Events, MessageEvents, Kinds, EventTypes

LEMMA ToldMore ==
  ASSUME NEW g \in Seq(Told1), NEW i \in Seq(Told1), NEW e \in Told1
  PROVE  Only(g \o Append(i, e), Events)
           = IF e \in Events THEN Append(Only(g \o i, Events), e) ELSE Only(g \o i, Events)
<1>1. g \o i \in Seq(Told1) /\ g \o Append(i, e) = Append(g \o i, e)
  BY ConcatProperties, AppendConcat
<1> QED
  BY <1>1, OnlyAppend

LEMMA ToldTheSame ==
  ASSUME NEW T, NEW g \in Seq(T), NEW i \in Seq(T), i # << >>
  PROVE  /\ Append(g, Head(i)) \o Tail(i) = g \o i
         /\ Append(g, Head(i)) \in Seq(T) /\ Tail(i) \in Seq(T)
<1>1. Head(i) \in T /\ Tail(i) \in Seq(T) /\ <<Head(i)>> \in Seq(T)
  BY HeadTailProperties
<1>2. <<Head(i)>> \o Tail(i) = i
  OBVIOUS
<1>3. Append(g, Head(i)) = g \o <<Head(i)>> /\ Append(g, Head(i)) \in Seq(T)
  BY <1>1, AppendIsConcat, AppendProperties
<1> QED
  BY <1>1, <1>2, <1>3, ConcatAssociative

LEMMA ToldAtOnce ==
  ASSUME NEW g \in Seq(Told1), NEW i \in Seq(Told1), NEW b \in Seq(Events)
  PROVE  Only(g \o (i \o b), Events) = Only(g \o i, Events) \o b
<1>1. b \in Seq(Told1)
  <2>1. Events \subseteq Told1
    BY DEF Told1
  <2> QED
    BY <2>1, SeqMonotonic
<1>2. PICK c \in Seq(Told1) : c = g \o i
  BY ConcatProperties
<1>3. g \o (i \o b) = c \o b
  BY <1>1, <1>2, ConcatAssociative
<1>4. Only(c \o b, Events) = Only(c, Events) \o Only(b, Events)
  BY <1>1, OnlyConcat
<1>5. Only(b, Events) = b
  BY OnlyAll
<1> QED
  BY <1>2, <1>3, <1>4, <1>5

-----------------------------------------------------------------------------
(* The inductive invariant.  A part of it speaks of the server's side of a  *)
(* stream, a part of the client's. *)

\* What a handler can be like.
HandlerShape(s) ==
  /\ kind[s] = "none" => /\ ~opened[s] /\ ~closed[s]
                         /\ arrived[s] = << >> /\ backlog[s] = << >>
                         /\ inbox[s] = << >> /\ given[s] = << >> /\ wire[s] = << >>
  /\ kind[s] = "http" => opened[s] /\ ~closed[s]
  /\ opened[s] => backlog[s] = << >>
  /\ app[s] = "ended" /\ kind[s] # "http" => closed[s]

\* ToldInOrder for one stream.
StreamTold(s) ==
  /\ IsPrefix(Told(s), Messages(s))
  /\ ~closed[s] => Told(s) \o Only(backlog[s], MessageEvents) = Messages(s)

\* Nothing follows the end of a stream, and only closing ends a session's.
StreamEnd(s) ==
  /\ EndsOnce(wire[s])
  /\ kind[s] # "http" =>
       ("fin" \in ToSet(wire[s]) <=> closed[s] /\ (opened[s] \/ kind[s] = "webtransport"))

ServerInv ==
  /\ ServerTypeOK
  /\ \A s \in Streams : HandlerShape(s) /\ StreamTold(s) /\ StreamEnd(s)

\* What the client has read of s.
Taken(s) == SubSeq(wire[s], 1, read[s])

\* A request has all the events that were read of its response; it is pending
\* until the last of the stream is read.
RequestInv(s) ==
  /\ waiter[s] # "none" => scheme = "https" /\ s \in urls
  /\ scheme = "https" /\ s \in urls => events[s] = Only(Taken(s), Contents)
  /\ scheme = "https" /\ s \in urls /\ waiter[s] \in {"none", "pending"} =>
       "fin" \notin ToSet(Taken(s))
  /\ waiter[s] \in {"done", "returned"} =>
       read[s] = Len(wire[s]) /\ "fin" \in ToSet(wire[s])

\* The file of a request that returned is its, or another's of the same name.
FileInv(s) ==
  waiter[s] = "returned" =>
    \/ \E u \in urls : /\ waiter[u] = "returned" /\ File(u) = File(s)
                       /\ files[File(s)] = Written(events[u])
    \/ main = "over" /\ \E p \in Pushed : /\ File(p) = File(s)
                                           /\ files[File(s)] = Written(pushes[p])

PushInv(p) ==
  pushes[p] # << >> =>
    /\ Head(pushes[p]) = "promise"
    /\ IsSuffix(Tail(pushes[p]), Only(Taken(p), Contents))

\* The conversation over the WebSocket: every text that was read is received or
\* queued, and each answers one that was sent.
WebSocketInv ==
  /\ scheme = "wss" => \E u \in Streams : urls = {u}
  /\ scheme = "wss" => \A s \in urls : ws.received + ws.queued = Len(Only(Taken(s), {"data"}))
  /\ scheme = "wss" /\ ws.sent = 0 =>
       \A s \in Streams : upstream[s] = << >> /\ kind[s] = "none"
  /\ main = "starting" => ws.sent = 0
  /\ main = "running" /\ ws.sent # 0 => ws.sent = ws.received + 1

ClientTypes ==
  /\ TypeOK
  /\ read \in [Streams -> Nat]
  /\ ws \in [sent : 0 .. 2, received : 0 .. 2, queued : Nat, closing : BOOLEAN]

\* The streams of the requests are the client's: nothing is pushed on them.
OwnStreams ==
  \A s \in Streams : /\ ToSet(wire[s]) \cap urls = {}
                     /\ s \in urls => pushes[s] = << >>

ClientInv ==
  /\ ClientTypes
  /\ WebSocketInv
  /\ OwnStreams
  /\ \A s \in Streams : RequestInv(s) /\ FileInv(s) /\ PushInv(s)

Inv == ServerInv /\ ClientInv

-----------------------------------------------------------------------------
(* The steps of the server *)

\* A step leaves stream t alone.
Same(t) ==
  /\ kind'[t] = kind[t] /\ app'[t] = app[t] /\ opened'[t] = opened[t]
  /\ closed'[t] = closed[t] /\ backlog'[t] = backlog[t] /\ inbox'[t] = inbox[t]
  /\ arrived'[t] = arrived[t] /\ given'[t] = given[t] /\ wire'[t] = wire[t]

LEMMA OneStream ==
  ASSUME ServerInv, ServerTypeOK', NEW S \in SUBSET Streams,
         \A t \in Streams \ S : Same(t),
         \A s \in S : HandlerShape(s)' /\ StreamTold(s)' /\ StreamEnd(s)'
  PROVE  ServerInv'
<1> SUFFICES ASSUME NEW t \in Streams, Same(t)
             PROVE  HandlerShape(t)' /\ StreamTold(t)' /\ StreamEnd(t)'
  BY DEF ServerInv
<1>1. HandlerShape(t) /\ StreamTold(t) /\ StreamEnd(t)
  BY DEF ServerInv
<1>2. HandlerShape(t)'
  BY <1>1 DEF HandlerShape, Same
<1>3. StreamTold(t)'
  BY <1>1 DEF StreamTold, Told, Messages, Same
<1>4. StreamEnd(t)'
  BY <1>1 DEF StreamEnd, Same
<1> QED
  BY <1>2, <1>3, <1>4

LEMMA OnlyThisStream ==
  ASSUME ServerInv, ServerTypeOK', NEW s \in Streams,
         \A t \in Streams \ {s} : Same(t),
         HandlerShape(s)', StreamTold(s)', StreamEnd(s)'
  PROVE  ServerInv'
<1>1. {s} \in SUBSET Streams
  OBVIOUS
<1>2. \A u \in {s} : HandlerShape(u)' /\ StreamTold(u)' /\ StreamEnd(u)'
  OBVIOUS
<1> QED
  BY <1>1, <1>2, OneStream

LEMMA EmptySequences ==
  ASSUME NEW T PROVE << >> \in Seq(T) /\ \A e \in T : <<e>> \in Seq(T)
  OBVIOUS

\* A message is told or held back, and the rest is as it was.
LEMMA ToldTypes ==
  ASSUME ServerTypeOK, NEW s \in Streams
  PROVE  /\ given[s] \in Seq(Told1) /\ inbox[s] \in Seq(Told1)
         /\ arrived[s] \in Seq(Events) /\ backlog[s] \in Seq(Events)
         /\ Told(s) \in Seq(Events)
         /\ Messages(s) \in Seq(Events) /\ Messages(s) \in Seq(MessageEvents)
         /\ Only(backlog[s], MessageEvents) \in Seq(Events)
         /\ Only(backlog[s], MessageEvents) \in Seq(MessageEvents)
<1>1. /\ given[s] \in Seq(Told1) /\ inbox[s] \in Seq(Told1)
      /\ arrived[s] \in Seq(Events) /\ backlog[s] \in Seq(Events)
  BY DEF ServerTypeOK, Told1
<1>2. given[s] \o inbox[s] \in Seq(Told1)
  BY <1>1, ConcatProperties
<1> QED
  BY <1>1, <1>2, OnlyTypeOf DEF Told, Messages

\* The prefix is a consequence as long as the session is open.
LEMMA ToldOpen ==
  ASSUME ServerTypeOK, NEW s \in Streams,
         Told(s) \o Only(backlog[s], MessageEvents) = Messages(s)
  PROVE  StreamTold(s)
<1>1. IsPrefix(Told(s), Told(s) \o Only(backlog[s], MessageEvents))
  BY ToldTypes, PrefixOfConcat
<1> QED
  BY <1>1 DEF StreamTold

-----------------------------------------------------------------------------
(* Events of the connection *)

LEMMA HeadersEvent ==
  ASSUME NEW ended \in BOOLEAN
  PROVE  /\ Headers(ended) \in Seq(MessageEvents) /\ Headers(ended) \in Seq(Events)
         /\ Headers(ended) \in Seq(Told1)
<1>1. [type |-> "headers", n |-> 1, last |-> TRUE] \in MessageEvents
  BY DEF MessageEvents, Events, Kinds, EventTypes
<1>2. Headers(ended) \in Seq(MessageEvents)
  BY <1>1 DEF Headers
<1>3. MessageEvents \subseteq Events /\ Events \subseteq Told1
  BY ConnectIsNoEvent DEF Told1
<1> QED
  BY <1>2, <1>3, SeqMonotonic

LEMMA NewHandlerKeeps ==
  ASSUME ServerInv, NEW s \in Streams, NEW k \in Kinds, NEW ended \in BOOLEAN,
         kind[s] = "none", NewHandler(s, k, ended), UNCHANGED <<closed, backlog, given>>
  PROVE  /\ kind' \in [Streams -> Kinds \cup {"none"}]
         /\ app' \in [Streams -> {"none", "scheduled", "running", "ended"}]
         /\ opened' \in [Streams -> BOOLEAN]
         /\ inbox' \in [Streams -> Seq(Told1)]
         /\ arrived' \in [Streams -> Seq(Events)]
         /\ \A t \in Streams : (kind'[t] = "none") = (app'[t] = "none")
         /\ kind'[s] = k /\ app'[s] = "scheduled" /\ opened'[s] = (k = "http")
         /\ ~closed'[s] /\ backlog'[s] = << >> /\ "none" \notin Kinds
         /\ StreamTold(s)'
<1> USE DEF ServerInv, ServerTypeOK, NewHandler
<1>1. "none" \notin Kinds /\ "scheduled" # "none"
  BY DEF Kinds
<1>2. kind'[s] = k /\ app'[s] = "scheduled" /\ opened'[s] = (k = "http")
  OBVIOUS
<1>3. /\ arrived'[s] = Headers(ended) /\ inbox'[s] = Headers(ended)
      /\ ~closed'[s] /\ backlog'[s] = << >> /\ given'[s] = << >>
  BY DEF HandlerShape
<1>4. /\ kind' \in [Streams -> Kinds \cup {"none"}]
      /\ app' \in [Streams -> {"none", "scheduled", "running", "ended"}]
      /\ opened' \in [Streams -> BOOLEAN]
      /\ \A t \in Streams : (kind'[t] = "none") = (app'[t] = "none")
  BY <1>1
<1>5. inbox' \in [Streams -> Seq(Told1)] /\ arrived' \in [Streams -> Seq(Events)]
  BY HeadersEvent DEF Told1
<1>6. StreamTold(s)'
  <2>1. Told(s)' = Headers(ended)
    <3>1. << >> \o Headers(ended) = Headers(ended)
      BY HeadersEvent, ConcatEmptySeq
    <3> QED
      BY <1>3, <3>1, HeadersEvent, OnlyAll DEF Told
  <2>2. Messages(s)' = Headers(ended)
    BY <1>3, HeadersEvent, OnlyAll DEF Messages
  <2>3. Only(backlog'[s], MessageEvents) = << >>
    BY <1>3, OnlyEmpty
  <2>4. Headers(ended) \o << >> = Headers(ended)
    BY HeadersEvent, ConcatEmptySeq
  <2>5. IsPrefix(Headers(ended), Headers(ended))
    <3>1. << >> \in Seq(Events) /\ Headers(ended) \in Seq(Events)
      BY HeadersEvent, EmptySequences
    <3>2. IsPrefix(Headers(ended), Headers(ended) \o << >>)
      BY <3>1, PrefixOfConcat
    <3> QED
      BY <2>4, <3>2
  <2>6. /\ IsPrefix(Told(s)', Messages(s)')
        /\ Told(s)' \o Only(backlog'[s], MessageEvents) = Messages(s)'
    BY <2>1, <2>2, <2>3, <2>4, <2>5
  <2> QED
    BY <2>6 DEF StreamTold
<1> QED
  BY <1>1, <1>2, <1>3, <1>4, <1>5, <1>6

LEMMA RequestKeeps ==
  ASSUME ServerInv, NEW s \in Streams, NEW k \in Kinds, NEW ended \in BOOLEAN,
         Request(s, k, ended)
  PROVE  ServerInv'
<1>1. /\ kind[s] = "none" /\ NewHandler(s, k, ended)
      /\ UNCHANGED <<closed, backlog, given, wire>>
  BY DEF Request
<1>2. ServerTypeOK'
  <2>1. /\ kind' \in [Streams -> Kinds \cup {"none"}]
        /\ app' \in [Streams -> {"none", "scheduled", "running", "ended"}]
        /\ opened' \in [Streams -> BOOLEAN]
        /\ inbox' \in [Streams -> Seq(Told1)]
        /\ arrived' \in [Streams -> Seq(Events)]
        /\ \A t \in Streams : (kind'[t] = "none") = (app'[t] = "none")
    BY <1>1, NewHandlerKeeps
  <2> QED
    BY <1>1, <2>1 DEF ServerInv, ServerTypeOK, Told1
<1>3. \A t \in Streams \ {s} : Same(t)
  BY <1>1 DEF NewHandler, Same, ServerInv, ServerTypeOK
<1>4. kind'[s] = k /\ app'[s] = "scheduled" /\ opened'[s] = (k = "http")
  BY <1>1, NewHandlerKeeps
<1>5. ~closed'[s] /\ backlog'[s] = << >> /\ "none" \notin Kinds /\ StreamTold(s)'
  BY <1>1, NewHandlerKeeps
<1>6. HandlerShape(s)'
  BY <1>4, <1>5 DEF HandlerShape
<1>7. StreamEnd(s)'
  <2>1. wire'[s] = << >>
    BY <1>1 DEF ServerInv, HandlerShape
  <2>2. Len(<< >>) = 0
    OBVIOUS
  <2> QED
    BY <1>5, <2>1, <2>2, ElementsOfEmpty DEF StreamEnd, EndsOnce
<1> QED
  BY <1>2, <1>3, <1>5, <1>6, <1>7, OnlyThisStream

LEMMA EventKeeps ==
  ASSUME ServerInv, NEW s \in Streams, NEW type, NEW last \in BOOLEAN,
         Event(s, type, last)
  PROVE  ServerInv'
<1> DEFINE e == [type |-> type, n |-> Len(arrived[s]) + 1, last |-> last]
<1>0. kind[s] # "none" /\ kind[s] \in Kinds /\ type \in EventTypes[kind[s]]
  BY DEF Event, ServerInv, ServerTypeOK
<1>1. e \in Events /\ e \in Told1
  <2>1. Len(arrived[s]) + 1 \in Nat
    BY LenProperties DEF ServerInv, ServerTypeOK
  <2> QED
    BY <1>0, <2>1 DEF Events, Told1
<1> HIDE DEF e
<1>2. /\ arrived' = [arrived EXCEPT ![s] = Append(@, e)] /\ Handle(s, e)
      /\ UNCHANGED <<kind, app, opened, closed, given, wire>>
  BY DEF Event, e
<1>3. ServerTypeOK'
  BY <1>1, <1>2 DEF ServerInv, ServerTypeOK, Handle, Told1
<1>4. \A t \in Streams \ {s} : Same(t)
  BY <1>2 DEF Handle, Same, ServerInv, ServerTypeOK
<1>5. /\ arrived'[s] = Append(arrived[s], e)
      /\ inbox'[s] = IF ~closed[s] /\ opened[s] /\ e \in MessageEvents
                     THEN Append(inbox[s], e) ELSE inbox[s]
      /\ backlog'[s] = IF ~closed[s] /\ ~opened[s] THEN Append(backlog[s], e) ELSE backlog[s]
  BY <1>2 DEF Handle, ServerInv, ServerTypeOK
<1>6. HandlerShape(s)'
  BY <1>0, <1>2, <1>5 DEF HandlerShape, ServerInv
<1>7. StreamEnd(s)'
  BY <1>2 DEF StreamEnd, ServerInv
<1>8. Messages(s)' = IF e \in MessageEvents THEN Append(Messages(s), e) ELSE Messages(s)
  <2>1. arrived[s] \in Seq(Events)
    BY ToldTypes DEF ServerInv
  <2>2. Only(Append(arrived[s], e), MessageEvents)
          = IF e \in MessageEvents THEN Append(Only(arrived[s], MessageEvents), e)
            ELSE Only(arrived[s], MessageEvents)
    BY <1>1, <2>1, OnlyAppend
  <2> QED
    BY <1>5, <2>2 DEF Messages
<1>9. StreamTold(s)'
  <2>0. ServerTypeOK /\ StreamTold(s) /\ HandlerShape(s)
    BY DEF ServerInv
  <2>1. CASE closed[s]
    <3>1. Told(s)' = Told(s)
      BY <1>2, <1>5, <2>1 DEF Told
    <3>2. IsPrefix(Told(s), Messages(s))
      BY <2>0 DEF StreamTold
    <3>3. IsPrefix(Told(s), Messages(s)')
      BY <1>1, <1>8, <2>0, <3>2, PrefixOfAppend, ToldTypes
    <3> QED
      BY <1>2, <2>1, <3>1, <3>3 DEF StreamTold
  <2>2. CASE ~closed[s] /\ opened[s]
    <3>1. Told(s) = Messages(s) /\ backlog'[s] = << >>
      <4>1. backlog[s] = << >>
        BY <2>0, <2>2 DEF HandlerShape
      <4>2. Told(s) \o << >> = Messages(s)
        BY <2>0, <2>2, <4>1, OnlyEmpty DEF StreamTold
      <4> QED
        BY <1>5, <2>0, <2>2, <4>1, <4>2, ToldTypes, ConcatEmptySeq
    <3>2. Told(s)' = Messages(s)'
      <4>1. CASE e \in MessageEvents
        <5>1. Told(s)' = Append(Told(s), e)
          BY <1>1, <1>2, <1>5, <2>0, <2>2, <4>1, ToldMore, ToldTypes DEF Told
        <5> QED
          BY <1>8, <3>1, <4>1, <5>1
      <4>2. CASE e \notin MessageEvents
        <5>1. Told(s)' = Told(s)
          BY <1>2, <1>5, <4>2 DEF Told
        <5> QED
          BY <1>8, <3>1, <4>2, <5>1
      <4> QED
        BY <4>1, <4>2
    <3>3. Only(backlog'[s], MessageEvents) = << >>
      BY <3>1, OnlyEmpty
    <3>4. /\ Messages(s)' \o << >> = Messages(s)'
          /\ IsPrefix(Messages(s)', Messages(s)' \o << >>)
      <4>1. Messages(s)' \in Seq(Events)
        BY <1>1, <1>8, <2>0, ToldTypes, AppendProperties
      <4> QED
        BY <4>1, EmptySequences, ConcatEmptySeq, PrefixOfConcat
    <3> QED
      BY <3>2, <3>3, <3>4 DEF StreamTold
  <2>3. CASE ~closed[s] /\ ~opened[s]
    <3> DEFINE B == Only(backlog[s], MessageEvents)
    <3>1. Told(s)' = Told(s) /\ Told(s) \o B = Messages(s)
      BY <1>2, <1>5, <2>0, <2>3 DEF Told, StreamTold
    <3>2. Only(backlog'[s], MessageEvents) = IF e \in MessageEvents THEN Append(B, e) ELSE B
      <4>1. backlog[s] \in Seq(Events) /\ backlog'[s] = Append(backlog[s], e)
        BY <1>5, <2>0, <2>3, ToldTypes
      <4>2. Only(Append(backlog[s], e), MessageEvents)
              = IF e \in MessageEvents THEN Append(B, e) ELSE B
        BY <1>1, <4>1, OnlyAppend
      <4> QED
        BY <4>1, <4>2
    <3>3. Told(s) \o Append(B, e) = Append(Told(s) \o B, e)
      BY <1>1, <2>0, AppendConcat, ToldTypes
    <3>4. Told(s)' \o Only(backlog'[s], MessageEvents) = Messages(s)'
      BY <1>8, <3>1, <3>2, <3>3
    <3>5. Told(s)' \in Seq(Events) /\ Only(backlog'[s], MessageEvents) \in Seq(Events)
      BY <1>1, <2>0, <3>1, <3>2, ToldTypes, AppendProperties
    <3>6. IsPrefix(Told(s)', Messages(s)')
      BY <3>4, <3>5, PrefixOfConcat
    <3> QED
      BY <3>4, <3>6 DEF StreamTold
  <2> QED
    BY <2>0, <2>1, <2>2, <2>3 DEF ServerTypeOK
<1> QED
  BY <1>3, <1>4, <1>6, <1>7, <1>9, OnlyThisStream

-----------------------------------------------------------------------------
(* The steps of the application *)

LEMMA RunningHandler ==
  ASSUME ServerInv, NEW s \in Streams, app[s] \in {"scheduled", "running"}
  PROVE  kind[s] \in Kinds /\ kind[s] # "none"
  BY DEF ServerInv, ServerTypeOK

\* A step that changes neither what was told nor what was sent.
LEMMA ToldSame ==
  ASSUME ServerInv, NEW s \in Streams, Told(s)' = Told(s),
         arrived'[s] = arrived[s], backlog'[s] = backlog[s], closed[s] => closed'[s]
  PROVE  StreamTold(s)'
  BY DEF StreamTold, Messages, ServerInv

LEMMA AppStartsTold ==
  ASSUME ServerInv, NEW s \in Streams, AppStarts(s) PROVE Told(s)' = Told(s)
<1>1. /\ inbox' = [inbox EXCEPT ![s] = IF kind[s] = "http" THEN @ ELSE Append(@, Connect)]
      /\ UNCHANGED given
  BY DEF AppStarts
<1>2. CASE kind[s] = "http"
  BY <1>1, <1>2 DEF Told, ServerInv, ServerTypeOK
<1>3. CASE kind[s] # "http"
  <2>1. inbox'[s] = Append(inbox[s], Connect)
    BY <1>1, <1>3 DEF ServerInv, ServerTypeOK
  <2>2. Connect \in Told1 /\ given[s] \in Seq(Told1) /\ inbox[s] \in Seq(Told1)
    BY ToldTypes DEF Told1, ServerInv
  <2>3. Only(given[s] \o Append(inbox[s], Connect), Events) = Told(s)
    BY <2>2, ToldMore, ConnectIsNoEvent DEF Told
  <2> QED
    BY <1>1, <2>1, <2>3 DEF Told
<1> QED
  BY <1>2, <1>3

LEMMA AppStartsKeeps ==
  ASSUME ServerInv, NEW s \in Streams, AppStarts(s) PROVE ServerInv'
<1>1. /\ app[s] = "scheduled" /\ app' = [app EXCEPT ![s] = "running"]
      /\ inbox' = [inbox EXCEPT ![s] = IF kind[s] = "http" THEN @ ELSE Append(@, Connect)]
      /\ UNCHANGED <<kind, opened, closed, backlog, arrived, given, wire>>
  BY DEF AppStarts
<1>2. ServerTypeOK'
  BY <1>1 DEF ServerInv, ServerTypeOK
<1>3. \A t \in Streams \ {s} : Same(t)
  BY <1>1 DEF Same, ServerInv, ServerTypeOK
<1>4. app'[s] = "running" /\ kind[s] # "none"
  BY <1>1, RunningHandler DEF ServerInv, ServerTypeOK
<1>5. HandlerShape(s)'
  BY <1>1, <1>4 DEF HandlerShape, ServerInv
<1>6. StreamEnd(s)'
  BY <1>1 DEF StreamEnd, ServerInv
<1>7. Told(s)' = Told(s)
  BY AppStartsTold
<1>8. StreamTold(s)'
  BY <1>1, <1>7, ToldSame
<1> QED
  BY <1>2, <1>3, <1>5, <1>6, <1>8, OnlyThisStream

LEMMA AppReceivesTold ==
  ASSUME ServerInv, NEW s \in Streams, AppReceives(s)
  PROVE  /\ Told(s)' = Told(s)
         /\ Append(given[s], Head(inbox[s])) \in Seq(Told1) /\ Tail(inbox[s]) \in Seq(Told1)
<1>1. /\ inbox[s] # << >> /\ inbox' = [inbox EXCEPT ![s] = Tail(@)]
      /\ given' = [given EXCEPT ![s] = Append(@, Head(inbox[s]))]
  BY DEF AppReceives
<1>2. /\ given'[s] = Append(given[s], Head(inbox[s])) /\ inbox'[s] = Tail(inbox[s])
      /\ given[s] \in Seq(Told1) /\ inbox[s] \in Seq(Told1)
  BY <1>1, ToldTypes DEF ServerInv, ServerTypeOK
<1>3. /\ Append(given[s], Head(inbox[s])) \o Tail(inbox[s]) = given[s] \o inbox[s]
      /\ Append(given[s], Head(inbox[s])) \in Seq(Told1) /\ Tail(inbox[s]) \in Seq(Told1)
  BY <1>1, <1>2, ToldTheSame
<1> QED
  BY <1>2, <1>3 DEF Told

LEMMA AppReceivesKeeps ==
  ASSUME ServerInv, NEW s \in Streams, AppReceives(s) PROVE ServerInv'
<1>1. /\ inbox' = [inbox EXCEPT ![s] = Tail(@)]
      /\ given' = [given EXCEPT ![s] = Append(@, Head(inbox[s]))]
      /\ app[s] = "running"
      /\ UNCHANGED <<kind, app, opened, closed, backlog, arrived, wire>>
  BY DEF AppReceives
<1>2. ServerTypeOK'
  BY <1>1, AppReceivesTold DEF ServerInv, ServerTypeOK, Told1
<1>3. \A t \in Streams \ {s} : Same(t)
  BY <1>1 DEF Same, ServerInv, ServerTypeOK
<1>4. HandlerShape(s)'
  BY <1>1, RunningHandler DEF HandlerShape, ServerInv
<1>5. StreamEnd(s)'
  BY <1>1 DEF StreamEnd, ServerInv
<1>6. StreamTold(s)'
  BY <1>1, AppReceivesTold, ToldSame
<1> QED
  BY <1>2, <1>3, <1>4, <1>5, <1>6, OnlyThisStream

\* What sending does to the stream.
LEMMA Sent ==
  ASSUME ServerInv, NEW s \in Streams, NEW items \in Seq(Sendables), Sends(s, items)
  PROVE  /\ wire' \in [Streams -> Seq(Sendables)]
         /\ wire'[s] = wire[s] \o items /\ wire[s] \in Seq(Sendables)
         /\ \A t \in Streams \ {s} : wire'[t] = wire[t]
         /\ ToSet(wire'[s]) = ToSet(wire[s]) \cup ToSet(items)
         /\ "fin" \notin ToSet(wire[s]) /\ EndsOnce(items) => EndsOnce(wire'[s])
<1>1. wire \in [Streams -> Seq(Sendables)] /\ wire[s] \in Seq(Sendables)
  BY DEF ServerInv, ServerTypeOK
<1>2. wire[s] \o items \in Seq(Sendables)
  BY <1>1, ConcatProperties
<1>3. wire'[s] = wire[s] \o items /\ \A t \in Streams \ {s} : wire'[t] = wire[t]
  BY <1>1 DEF Sends
<1> QED
  BY <1>1, <1>2, <1>3, ElementsOfConcat, EndsOnceConcat DEF Sends

LEMMA OneItem ==
  ASSUME NEW x \in Sendables
  PROVE  <<x>> \in Seq(Sendables) /\ ToSet(<<x>>) = {x} /\ EndsOnce(<<x>>)
<1>1. Len(<<x>>) = 1
  OBVIOUS
<1> QED
  BY <1>1, ElementOf, EmptySequences DEF EndsOnce

LEMMA ContentsAreSendable ==
  /\ "headers" \in Sendables /\ "refusal" \in Sendables
  /\ "data" \in Sendables /\ "fin" \in Sendables
  /\ \A p \in Streams : p \in Sendables /\ p \notin Contents /\ p # "fin"
  BY StreamsAssumption DEF Sendables, Contents

LEMMA AcceptKeeps ==
  ASSUME ServerInv, NEW s \in Streams, Accept(s) PROVE ServerInv'
<1>1. /\ app[s] = "running" /\ kind[s] # "http" /\ ~opened[s] /\ ~closed[s]
      /\ opened' = [opened EXCEPT ![s] = TRUE] /\ Sends(s, <<"headers">>)
      /\ inbox' = [inbox EXCEPT ![s] = @ \o Only(backlog[s], MessageEvents)]
      /\ backlog' = [backlog EXCEPT ![s] = << >>]
      /\ UNCHANGED <<kind, app, closed, arrived, given>>
  BY DEF Accept
<1>0. PICK B \in Seq(Events) : B = Only(backlog[s], MessageEvents)
  BY ToldTypes DEF ServerInv
<1>2. B \in Seq(Told1) /\ given[s] \in Seq(Told1) /\ inbox[s] \in Seq(Told1)
  <2>1. Events \subseteq Told1
    BY DEF Told1
  <2> QED
    BY <2>1, SeqMonotonic, ToldTypes DEF ServerInv
<1>3. /\ wire' \in [Streams -> Seq(Sendables)]
      /\ \A t \in Streams \ {s} : wire'[t] = wire[t]
      /\ ToSet(wire'[s]) = ToSet(wire[s]) \cup {"headers"}
      /\ "fin" \notin ToSet(wire[s]) => EndsOnce(wire'[s])
  BY <1>1, Sent, OneItem, ContentsAreSendable
<1>4. inbox' = [inbox EXCEPT ![s] = @ \o B]
  BY <1>0, <1>1
<1>5. ServerTypeOK'
  <2>1. inbox[s] \o B \in Seq(Told1)
    BY <1>2, ConcatProperties
  <2>2. inbox' \in [Streams -> Seq(Told1)]
    BY <1>4, <2>1 DEF ServerInv, ServerTypeOK, Told1
  <2> QED
    BY <1>1, <1>3, <2>2 DEF ServerInv, ServerTypeOK, Told1
<1>6. \A t \in Streams \ {s} : Same(t)
  BY <1>1, <1>3 DEF Same, ServerInv, ServerTypeOK
<1>7. HandlerShape(s)'
  BY <1>1, RunningHandler DEF HandlerShape, ServerInv, ServerTypeOK
<1>8. StreamEnd(s)'
  BY <1>1, <1>3 DEF StreamEnd, ServerInv
<1>9. StreamTold(s)'
  <2>1. Told(s) \o B = Messages(s)
    BY <1>0, <1>1 DEF ServerInv, StreamTold
  <2>2. Told(s)' = Told(s) \o B
    <3>1. given'[s] = given[s] /\ inbox'[s] = inbox[s] \o B
      BY <1>1, <1>4 DEF ServerInv, ServerTypeOK
    <3> QED
      <4>1. Only(given[s] \o (inbox[s] \o B), Events) = Only(given[s] \o inbox[s], Events) \o B
        BY <1>0, <1>2, ToldAtOnce
      <4>2. Told(s)' = Only(given[s] \o (inbox[s] \o B), Events)
        BY <3>1 DEF Told
      <4> QED
        BY <4>1, <4>2 DEF Told
  <2>3. Messages(s)' = Messages(s) /\ Messages(s) \in Seq(Events)
    BY <1>1, ToldTypes DEF Messages, ServerInv
  <2>4. Only(backlog'[s], MessageEvents) = << >>
    BY <1>1, OnlyEmpty DEF ServerInv, ServerTypeOK
  <2>5. Messages(s) \o << >> = Messages(s) /\ IsPrefix(Messages(s), Messages(s) \o << >>)
    BY <2>3, EmptySequences, ConcatEmptySeq, PrefixOfConcat
  <2>6. /\ IsPrefix(Told(s)', Messages(s)')
        /\ Told(s)' \o Only(backlog'[s], MessageEvents) = Messages(s)'
    BY <2>1, <2>2, <2>3, <2>4, <2>5
  <2> QED
    BY <2>6 DEF StreamTold
<1> QED
  BY <1>5, <1>6, <1>7, <1>8, <1>9, OnlyThisStream

\* What closing sends: one end at most, and it comes last.
LEMMA ClosingItems ==
  ASSUME NEW s \in Streams
  PROVE  /\ Closing(s) \in Seq(Sendables) /\ EndsOnce(Closing(s))
         /\ "fin" \in ToSet(Closing(s)) <=> opened[s] \/ kind[s] # "websocket"
<1>1. CASE opened[s]
  BY <1>1, OneItem, ContentsAreSendable DEF Closing
<1>2. CASE ~opened[s] /\ kind[s] = "websocket"
  BY <1>2, OneItem, ContentsAreSendable DEF Closing
<1>3. CASE ~opened[s] /\ kind[s] # "websocket"
  <2>1. Closing(s) = <<"refusal", "fin">>
    BY <1>3 DEF Closing
  <2>2. /\ <<"refusal", "fin">> \in Seq(Sendables) /\ Len(<<"refusal", "fin">>) = 2
        /\ <<"refusal", "fin">>[1] = "refusal" /\ <<"refusal", "fin">>[2] = "fin"
        /\ DOMAIN <<"refusal", "fin">> = 1 .. 2
    BY ContentsAreSendable
  <2>3. EndsOnce(<<"refusal", "fin">>)
    BY <2>2 DEF EndsOnce
  <2>4. "fin" \in ToSet(<<"refusal", "fin">>)
    BY <2>2 DEF ToSet
  <2> QED
    BY <1>3, <2>1, <2>2, <2>3, <2>4
<1> QED
  BY <1>1, <1>2, <1>3

\* A session that is open is closed, by the application or by its end.
LEMMA ClosesKeeps ==
  ASSUME ServerInv, NEW s \in Streams,
         app[s] = "running", kind[s] # "http", ~closed[s], Sends(s, Closing(s)),
         closed' = [closed EXCEPT ![s] = TRUE],
         \/ UNCHANGED app
         \/ app' = [app EXCEPT ![s] = "ended"],
         UNCHANGED <<kind, opened, backlog, inbox, arrived, given>>
  PROVE  ServerInv'
<1>1. /\ wire' \in [Streams -> Seq(Sendables)]
      /\ \A t \in Streams \ {s} : wire'[t] = wire[t]
      /\ ToSet(wire'[s]) = ToSet(wire[s]) \cup ToSet(Closing(s))
      /\ "fin" \notin ToSet(wire[s]) => EndsOnce(wire'[s])
  BY Sent, ClosingItems
<1>2. kind[s] \in Kinds /\ kind[s] # "none"
  BY RunningHandler
<1>3. ServerTypeOK'
  BY <1>1, <1>2 DEF ServerInv, ServerTypeOK
<1>4. \A t \in Streams \ {s} : Same(t)
  BY <1>1 DEF Same, ServerInv, ServerTypeOK
<1>5. closed'[s]
  BY DEF ServerInv, ServerTypeOK
<1>6. HandlerShape(s)'
  BY <1>2, <1>5 DEF HandlerShape, ServerInv
<1>7. StreamEnd(s)'
  <2>1. "fin" \notin ToSet(wire[s])
    BY DEF StreamEnd, ServerInv
  <2>2. "fin" \in ToSet(wire'[s]) <=> opened[s] \/ kind[s] # "websocket"
    BY <1>1, <2>1, ClosingItems
  <2>3. kind[s] # "websocket" <=> kind[s] = "webtransport"
    BY <1>2 DEF Kinds
  <2> QED
    BY <1>1, <1>5, <2>1, <2>2, <2>3 DEF StreamEnd
<1>8. StreamTold(s)'
  <2>1. Told(s)' = Told(s)
    BY DEF Told
  <2> QED
    BY <1>5, <2>1, ToldSame
<1> QED
  BY <1>3, <1>4, <1>6, <1>7, <1>8, OnlyThisStream

LEMMA CloseKeeps ==
  ASSUME ServerInv, NEW s \in Streams, Close(s) PROVE ServerInv'
  BY ClosesKeeps DEF Close

LEMMA AppEndsKeeps ==
  ASSUME ServerInv, NEW s \in Streams, AppEnds(s) PROVE ServerInv'
<1>1. /\ app[s] = "running" /\ app' = [app EXCEPT ![s] = "ended"]
      /\ UNCHANGED <<kind, opened, backlog, inbox, arrived, given>>
  BY DEF AppEnds
<1>2. CASE kind[s] # "http" /\ ~closed[s]
  <2>1. Sends(s, Closing(s)) /\ closed' = [closed EXCEPT ![s] = TRUE]
    BY <1>2 DEF AppEnds, ServerInv, ServerTypeOK
  <2> QED
    BY <1>1, <1>2, <2>1, ClosesKeeps
<1>3. CASE kind[s] = "http" \/ closed[s]
  <2>1. Sends(s, << >>) /\ closed' = closed
    BY <1>3 DEF AppEnds, ServerInv, ServerTypeOK
  <2>2. wire' = wire
    <3>1. wire[s] \o << >> = wire[s]
      BY ConcatEmptySeq DEF ServerInv, ServerTypeOK
    <3> QED
      BY <2>1, <3>1 DEF Sends, ServerInv, ServerTypeOK
  <2>3. ServerTypeOK'
    BY <1>1, <2>1, <2>2, RunningHandler DEF ServerInv, ServerTypeOK
  <2>4. \A t \in Streams \ {s} : Same(t)
    BY <1>1, <2>1, <2>2 DEF Same, ServerInv, ServerTypeOK
  <2>5. HandlerShape(s)'
    BY <1>1, <1>3, <2>1, <2>2, RunningHandler DEF HandlerShape, ServerInv
  <2>6. StreamEnd(s)'
    BY <1>1, <2>1, <2>2 DEF StreamEnd, ServerInv
  <2>7. StreamTold(s)'
    <3>1. Told(s)' = Told(s)
      BY <1>1 DEF Told
    <3> QED
      BY <1>1, <2>1, <3>1, ToldSame
  <2> QED
    BY <2>3, <2>4, <2>5, <2>6, <2>7, OnlyThisStream
<1> QED
  BY <1>2, <1>3

\* One item more on the stream of a handler whose stream has not ended, and
\* whose end, for a session, is not among its items.
LEMMA SendsKeeps ==
  ASSUME ServerInv, NEW s \in Streams, NEW x \in Sendables,
         app[s] = "running", Sends(s, <<x>>), "fin" \notin ToSet(wire[s]),
         kind[s] # "http" => x # "fin",
         UNCHANGED <<kind, app, opened, closed, backlog, inbox, arrived, given>>
  PROVE  ServerInv'
<1>1. /\ wire' \in [Streams -> Seq(Sendables)]
      /\ \A t \in Streams \ {s} : wire'[t] = wire[t]
      /\ ToSet(wire'[s]) = ToSet(wire[s]) \cup {x} /\ EndsOnce(wire'[s])
  BY Sent, OneItem
<1>2. ServerTypeOK'
  BY <1>1 DEF ServerInv, ServerTypeOK
<1>3. \A t \in Streams \ {s} : Same(t)
  BY <1>1 DEF Same, ServerInv, ServerTypeOK
<1>4. HandlerShape(s)'
  BY RunningHandler DEF HandlerShape, ServerInv
<1>5. StreamEnd(s)'
  BY <1>1 DEF StreamEnd, ServerInv
<1>6. StreamTold(s)'
  <2>1. Told(s)' = Told(s)
    BY DEF Told
  <2> QED
    BY <2>1, ToldSame
<1> QED
  BY <1>2, <1>3, <1>4, <1>5, <1>6, OnlyThisStream

LEMMA SendMessageKeeps ==
  ASSUME ServerInv, NEW s \in Streams, SendMessage(s) PROVE ServerInv'
<1>1. "fin" \notin ToSet(wire[s])
  BY DEF SendMessage, ServerInv, StreamEnd
<1> QED
  BY <1>1, SendsKeeps, ContentsAreSendable DEF SendMessage

LEMMA RespondKeeps ==
  ASSUME ServerInv, NEW s \in Streams, NEW item, Respond(s, item) PROVE ServerInv'
<1>1. item \in Sendables
  BY ContentsAreSendable DEF Respond
<1> QED
  BY <1>1, SendsKeeps DEF Respond

LEMMA PushKeeps ==
  ASSUME ServerInv, NEW s \in Streams, NEW p \in Streams, Push(s, p) PROVE ServerInv'
<1>1. /\ app[s] = "running" /\ kind[s] = "http" /\ "fin" \notin ToSet(wire[s])
      /\ kind[p] = "none" /\ NewHandler(p, "http", TRUE) /\ Sends(s, <<p>>)
      /\ UNCHANGED <<closed, backlog, given>>
  BY DEF Push
<1>2. p # s /\ "http" \in Kinds
  BY <1>1 DEF Kinds
<1>3. /\ wire' \in [Streams -> Seq(Sendables)]
      /\ \A t \in Streams \ {s} : wire'[t] = wire[t]
      /\ ToSet(wire'[s]) = ToSet(wire[s]) \cup {p} /\ EndsOnce(wire'[s])
  <2>1. p \in Sendables /\ <<p>> \in Seq(Sendables) /\ ToSet(<<p>>) = {p} /\ EndsOnce(<<p>>)
    BY OneItem, ContentsAreSendable
  <2> QED
    BY <1>1, <2>1, Sent
<1>4. /\ kind' \in [Streams -> Kinds \cup {"none"}]
      /\ app' \in [Streams -> {"none", "scheduled", "running", "ended"}]
      /\ opened' \in [Streams -> BOOLEAN]
      /\ inbox' \in [Streams -> Seq(Told1)]
      /\ arrived' \in [Streams -> Seq(Events)]
      /\ \A t \in Streams : (kind'[t] = "none") = (app'[t] = "none")
  BY <1>1, <1>2, NewHandlerKeeps
<1>5. /\ kind'[p] = "http" /\ app'[p] = "scheduled" /\ opened'[p]
      /\ ~closed'[p] /\ backlog'[p] = << >> /\ StreamTold(p)'
  BY <1>1, <1>2, NewHandlerKeeps
<1>6. ServerTypeOK'
  BY <1>1, <1>3, <1>4 DEF ServerInv, ServerTypeOK, Told1
<1>7. /\ \A t \in Streams \ {s, p} : Same(t)
      /\ kind'[s] = kind[s] /\ app'[s] = app[s] /\ opened'[s] = opened[s]
      /\ arrived'[s] = arrived[s] /\ inbox'[s] = inbox[s]
  BY <1>1, <1>2, <1>3 DEF Same, NewHandler, ServerInv, ServerTypeOK
<1>8. HandlerShape(s)' /\ HandlerShape(p)'
  BY <1>1, <1>5, <1>7 DEF HandlerShape, ServerInv
<1>9. StreamEnd(s)' /\ StreamEnd(p)'
  <2>1. wire'[p] = << >> /\ Len(<< >>) = 0
    BY <1>1, <1>2, <1>3 DEF ServerInv, HandlerShape
  <2>2. StreamEnd(p)'
    BY <1>5, <2>1 DEF StreamEnd, EndsOnce
  <2>3. StreamEnd(s)'
    BY <1>1, <1>3, <1>7 DEF StreamEnd
  <2> QED
    BY <2>2, <2>3
<1>10. StreamTold(s)'
  <2>1. Told(s)' = Told(s)
    BY <1>1, <1>7 DEF Told
  <2> QED
    BY <1>1, <1>7, <2>1, ToldSame
<1>11. {s, p} \in SUBSET Streams
  OBVIOUS
<1>12. \A u \in {s, p} : HandlerShape(u)' /\ StreamTold(u)' /\ StreamEnd(u)'
  BY <1>5, <1>8, <1>9, <1>10
<1> QED
  BY <1>6, <1>7, <1>11, <1>12, OneStream

-----------------------------------------------------------------------------
(* The server's part of a step *)

AnyType == {"body", "headers", "text", "closing", "end", "datagram", "stream"}

\* What the server does in a step, if it does anything.
ServerMoves(s) ==
  \/ \E k \in Kinds, ended \in BOOLEAN : Request(s, k, ended)
  \/ \E type \in AnyType, last \in BOOLEAN : Event(s, type, last)
  \/ AppStarts(s) \/ AppReceives(s) \/ Accept(s) \/ Close(s) \/ SendMessage(s)
  \/ \E item \in Contents : Respond(s, item)
  \/ \E p \in Streams \ urls : Push(s, p)
  \/ AppEnds(s)

LEMMA DeliverMoves ==
  ASSUME NEW s \in Streams, Deliver(s) PROVE ServerMoves(s)
<1>1. PICK item : /\ item = Head(upstream[s])
                  /\ \/ item \in {"get", "post"} /\ Request(s, "http", item = "get")
                     \/ item = "connect" /\ Request(s, "websocket", FALSE)
                     \/ item \in {"body", "text", "closing"} /\ Event(s, item, item # "text")
  BY DEF Deliver
<1>2. CASE item \in {"get", "post"} /\ Request(s, "http", item = "get")
  <2>1. "http" \in Kinds /\ (item = "get") \in BOOLEAN
    BY DEF Kinds
  <2> QED
    BY <1>2, <2>1 DEF ServerMoves
<1>3. CASE item = "connect" /\ Request(s, "websocket", FALSE)
  BY <1>3 DEF ServerMoves, Kinds
<1>4. CASE item \in {"body", "text", "closing"} /\ Event(s, item, item # "text")
  <2>1. item \in AnyType /\ (item # "text") \in BOOLEAN
    BY <1>4 DEF AnyType
  <2> QED
    BY <1>4, <2>1 DEF ServerMoves
<1> QED
  BY <1>1, <1>2, <1>3, <1>4

LEMMA ServerStepMoves ==
  ASSUME NEW s \in Streams, ServerStep(s) PROVE ServerMoves(s)
  BY DEF ServerStep, ServerMoves, Contents

LEMMA StepCases ==
  ASSUME [Next]_vars
  PROVE  \/ UNCHANGED vars
         \/ \E s \in Streams : /\ ServerMoves(s) /\ UNCHANGED <<givenVars, clientVars>>
                               /\ scheme = "other" \/ app[s] \in {"scheduled", "running"}
         \/ \E s \in Streams : Deliver(s)
         \/ \E s \in Streams : OpenWebSocket(s) \/ WebSocketTurn(s) \/ RequestReturns(s) \/ Read(s)
         \/ CheckUrls \/ Ask \/ AllDone \/ LoseConnection
<1>1. CASE UNCHANGED vars
  BY <1>1
<1>2. ASSUME NEW s \in Streams, ServerStep(s)
      PROVE  /\ ServerMoves(s) /\ UNCHANGED <<givenVars, clientVars>>
             /\ app[s] \in {"scheduled", "running"}
  <2>1. app[s] \in {"scheduled", "running"}
    BY <1>2 DEF ServerStep, AppStarts, AppReceives, Accept, Close, SendMessage, Respond, Push, AppEnds
  <2> QED
    BY <1>2, <2>1, ServerStepMoves DEF ServerStep
<1>3. ASSUME NEW s \in Streams, NEW k \in Kinds, NEW ended \in BOOLEAN, OtherRequest(s, k, ended)
      PROVE  ServerMoves(s) /\ UNCHANGED <<givenVars, clientVars>> /\ scheme = "other"
  BY <1>3 DEF OtherRequest, ServerMoves
<1>4. ASSUME NEW s \in Streams, NEW last \in BOOLEAN, NEW e \in AnyType, OtherEvent(s, e, last)
      PROVE  ServerMoves(s) /\ UNCHANGED <<givenVars, clientVars>> /\ scheme = "other"
  <2>1. Event(s, e, last) /\ UNCHANGED <<givenVars, clientVars>> /\ scheme = "other"
    BY <1>4 DEF OtherEvent
  <2> QED
    BY <2>1 DEF ServerMoves
<1> QED
  BY <1>1, <1>2, <1>3, <1>4 DEF Next, AnyType

LEMMA ServerMovesKeep ==
  ASSUME ServerInv, NEW s \in Streams, ServerMoves(s) PROVE ServerInv'
  BY RequestKeeps, EventKeeps, AppStartsKeeps, AppReceivesKeeps, AcceptKeeps, CloseKeeps,
     SendMessageKeeps, RespondKeeps, PushKeeps, AppEndsKeeps DEF ServerMoves

LEMMA ServerSame == ServerInv /\ UNCHANGED serverVars => ServerInv'
  BY DEF ServerInv, ServerTypeOK, HandlerShape, StreamTold, StreamEnd, Told, Messages, serverVars

\* The steps of the client leave the server alone.
LEMMA ClientAlone ==
  \/ \E s \in Streams : OpenWebSocket(s) \/ WebSocketTurn(s) \/ RequestReturns(s) \/ Read(s)
  \/ CheckUrls \/ Ask \/ AllDone \/ LoseConnection
  => UNCHANGED serverVars
  BY DEF OpenWebSocket, WebSocketTurn, RequestReturns, Read, CheckUrls, Ask, AllDone, LoseConnection

LEMMA ServerInvInit == Init => ServerInv
<1> SUFFICES ASSUME Init PROVE ServerInv
  OBVIOUS
<1>1. ServerInit
  BY DEF Init
<1>2. ServerTypeOK
  <2>1. \A T : << >> \in Seq(T)
    BY EmptySequences
  <2> QED
    BY <1>1, <2>1 DEF ServerInit, ServerTypeOK
<1>3. ASSUME NEW s \in Streams PROVE HandlerShape(s) /\ StreamEnd(s)
  <2>1. Len(<< >>) = 0
    OBVIOUS
  <2> QED
    BY <1>1, <2>1, ElementsOfEmpty DEF ServerInit, HandlerShape, StreamEnd, EndsOnce
<1>4. ASSUME NEW s \in Streams PROVE StreamTold(s)
  <2>1. << >> \o << >> = << >> /\ IsPrefix(<< >>, << >>)
    <3>1. << >> \in Seq(Events)
      BY EmptySequences
    <3>2. << >> \o << >> = << >>
      OBVIOUS
    <3> QED
      BY <3>1, <3>2, PrefixOfConcat
  <2>2. Told(s) = << >> /\ Messages(s) = << >> /\ Only(backlog[s], MessageEvents) = << >>
    BY <1>1, <2>1, OnlyEmpty DEF Told, Messages, ServerInit
  <2> QED
    BY <2>1, <2>2 DEF StreamTold
<1> QED
  BY <1>2, <1>3, <1>4 DEF ServerInv

LEMMA ServerInvStep == ServerInv /\ [Next]_vars => ServerInv'
<1> SUFFICES ASSUME ServerInv, [Next]_vars PROVE ServerInv'
  OBVIOUS
<1>1. CASE UNCHANGED vars
  BY <1>1, ServerSame DEF vars
<1>2. CASE \E s \in Streams : ServerMoves(s)
  BY <1>2, ServerMovesKeep
<1>3. CASE \E s \in Streams : Deliver(s)
  BY <1>3, DeliverMoves, ServerMovesKeep
<1>4. CASE UNCHANGED serverVars
  BY <1>4, ServerSame
<1> QED
  BY <1>1, <1>2, <1>3, <1>4, StepCases, ClientAlone

LEMMA ServerInvAlways == Spec => []ServerInv
  BY ServerInvInit, ServerInvStep, PTL DEF Spec

\* The handler tells its application everything in order, whatever came before
\* the session was accepted.
THEOREM ToldInOrderAlways == Spec => []ToldInOrder
<1>1. ServerInv => ToldInOrder
  BY DEF ServerInv, ToldInOrder, StreamTold
<1> QED
  BY <1>1, ServerInvAlways, PTL

\* An application that has ended leaves its session closed and, except for a
\* websocket that was refused, its stream ended.
THEOREM SessionsAreEnded == Spec => []SessionsEnd
<1>1. ServerInv => SessionsEnd
  <2> SUFFICES ASSUME ServerInv, NEW s \in Streams, app[s] = "ended", kind[s] # "http"
               PROVE  /\ closed[s]
                      /\ "fin" \in ToSet(wire[s]) <=> opened[s] \/ kind[s] = "webtransport"
    BY DEF SessionsEnd
  <2> QED
    BY DEF ServerInv, HandlerShape, StreamEnd
<1> QED
  BY <1>1, ServerInvAlways, PTL

-----------------------------------------------------------------------------
(* What a step of the server adds to its streams *)

\* What stream s gets in a step: nothing that the client asked for itself, and
\* nothing at all after the end or on a closed session.
NewItems(s, items) ==
  /\ items \in Seq(Sendables) /\ ToSet(items) \cap urls = {}
  /\ wire' = [wire EXCEPT ![s] = @ \o items]
  /\ "fin" \in ToSet(wire[s]) \/ closed[s] => items = << >>

LEMMA NothingSent ==
  ASSUME ServerInv, NEW s \in Streams, UNCHANGED wire PROVE NewItems(s, << >>)
<1>1. wire[s] \o << >> = wire[s] /\ << >> \in Seq(Sendables)
  BY ConcatEmptySeq, EmptySequences DEF ServerInv, ServerTypeOK
<1>2. wire' = [wire EXCEPT ![s] = @ \o << >>]
  BY <1>1 DEF ServerInv, ServerTypeOK
<1> QED
  BY <1>1, <1>2, ElementsOfEmpty DEF NewItems

LEMMA OneSent ==
  ASSUME ServerInv, NEW s \in Streams, NEW x \in Sendables \ urls, Sends(s, <<x>>),
         "fin" \notin ToSet(wire[s]), ~closed[s]
  PROVE  NewItems(s, <<x>>)
  BY OneItem DEF NewItems, Sends

LEMMA ClosingSent ==
  ASSUME ServerInv, urls \subseteq Streams, NEW s \in Streams, Sends(s, Closing(s)),
         kind[s] # "http", ~closed[s]
  PROVE  NewItems(s, Closing(s))
<1>1. "fin" \notin ToSet(wire[s])
  BY DEF ServerInv, StreamEnd
<1>2. ToSet(Closing(s)) \subseteq Contents
  <2>1. /\ ToSet(<<"fin">>) = {"fin"} /\ ToSet(<<"refusal">>) = {"refusal"}
    BY OneItem, ContentsAreSendable
  <2>2. ToSet(<<"refusal", "fin">>) \subseteq {"refusal", "fin"}
    BY DEF ToSet
  <2> QED
    BY <2>1, <2>2 DEF Closing, Contents
<1>3. ToSet(Closing(s)) \cap urls = {}
  BY <1>2, StreamsAssumption
<1> QED
  BY <1>1, <1>3, ClosingItems DEF NewItems, Sends

LEMMA MovesSend ==
  ASSUME ServerInv, urls \subseteq Streams, NEW s \in Streams, ServerMoves(s)
  PROVE  \E items : NewItems(s, items)
<1>0. Contents \subseteq Sendables \ urls
  BY StreamsAssumption DEF Sendables
<1>1. CASE \E k \in Kinds, ended \in BOOLEAN : Request(s, k, ended)
  BY <1>1, NothingSent DEF Request
<1>2. CASE \E type \in AnyType, last \in BOOLEAN : Event(s, type, last)
  BY <1>2, NothingSent DEF Event
<1>3. CASE AppStarts(s) \/ AppReceives(s)
  BY <1>3, NothingSent DEF AppStarts, AppReceives
<1>4. CASE Accept(s)
  <2>1. kind[s] # "http" /\ ~closed[s] /\ Sends(s, <<"headers">>)
    BY <1>4 DEF Accept
  <2>2. "fin" \notin ToSet(wire[s]) /\ "headers" \in Sendables \ urls
    BY <1>0, <2>1 DEF ServerInv, StreamEnd, Contents
  <2> QED
    BY <2>1, <2>2, OneSent
<1>5. CASE Close(s)
  BY <1>5, ClosingSent DEF Close
<1>6. CASE SendMessage(s)
  <2>1. kind[s] = "websocket" /\ ~closed[s] /\ Sends(s, <<"data">>)
    BY <1>6 DEF SendMessage
  <2>2. "fin" \notin ToSet(wire[s]) /\ "data" \in Sendables \ urls
    BY <1>0, <2>1 DEF ServerInv, StreamEnd, Contents
  <2> QED
    BY <2>1, <2>2, OneSent
<1>7. ASSUME NEW item \in Contents, Respond(s, item)
      PROVE  \E items : NewItems(s, items)
  <2>1. kind[s] = "http" /\ "fin" \notin ToSet(wire[s]) /\ Sends(s, <<item>>)
    BY <1>7 DEF Respond
  <2>2. ~closed[s] /\ item \in Sendables \ urls
    BY <1>0, <1>7, <2>1 DEF ServerInv, HandlerShape
  <2> QED
    BY <2>1, <2>2, OneSent
<1>8. ASSUME NEW p \in Streams \ urls, Push(s, p)
      PROVE  \E items : NewItems(s, items)
  <2>1. kind[s] = "http" /\ "fin" \notin ToSet(wire[s]) /\ Sends(s, <<p>>)
    BY <1>8 DEF Push
  <2>2. ~closed[s] /\ p \in Sendables \ urls
    BY <2>1 DEF ServerInv, HandlerShape, Sendables
  <2> QED
    BY <2>1, <2>2, OneSent
<1>9. CASE AppEnds(s)
  <2>1. CASE kind[s] # "http" /\ ~closed[s]
    <3>1. Sends(s, Closing(s))
      BY <1>9, <2>1 DEF AppEnds
    <3> QED
      BY <2>1, <3>1, ClosingSent
  <2>2. CASE ~(kind[s] # "http" /\ ~closed[s])
    <3>1. Sends(s, << >>)
      BY <1>9, <2>2 DEF AppEnds
    <3>2. << >> \in Seq(Sendables) /\ ToSet(<< >>) = {}
      BY EmptySequences, ElementsOfEmpty
    <3>3. NewItems(s, << >>)
      BY <3>1, <3>2 DEF NewItems, Sends
    <3> QED
      BY <3>3
  <2> QED
    BY <2>1, <2>2
<1> QED
  BY <1>1, <1>2, <1>3, <1>4, <1>5, <1>6, <1>7, <1>8, <1>9 DEF ServerMoves

\* The messages of a closed session are not added to.
LEMMA ClosedTold ==
  ASSUME ServerInv, NEW s \in Streams, ServerMoves(s), NEW t \in Streams, closed[t]
  PROVE  Told(t)' = Told(t)
<1>0. kind[t] # "none" /\ kind[t] # "http"
  BY DEF ServerInv, HandlerShape
<1>1. inbox'[t] = inbox[t] /\ given'[t] = given[t] => Told(t)' = Told(t)
  BY DEF Told
<1> USE DEF ServerInv, ServerTypeOK
<1>2. CASE \E k \in Kinds, ended \in BOOLEAN : Request(s, k, ended)
  BY <1>0, <1>1, <1>2 DEF Request, NewHandler
<1>3. CASE \E type \in AnyType, last \in BOOLEAN : Event(s, type, last)
  BY <1>1, <1>3 DEF Event, Handle
<1>4. CASE AppStarts(s)
  <2>1. CASE t = s
    BY <1>4, <2>1, AppStartsTold
  <2>2. CASE t # s
    BY <1>1, <1>4, <2>2 DEF AppStarts
  <2> QED
    BY <2>1, <2>2
<1>5. CASE AppReceives(s)
  <2>1. CASE t = s
    BY <1>5, <2>1, AppReceivesTold
  <2>2. CASE t # s
    BY <1>1, <1>5, <2>2 DEF AppReceives
  <2> QED
    BY <2>1, <2>2
<1>6. CASE Accept(s)
  <2>1. t # s
    BY <1>6 DEF Accept
  <2> QED
    BY <1>1, <1>6, <2>1 DEF Accept
<1>7. CASE Close(s) \/ SendMessage(s) \/ AppEnds(s) \/ \E item \in Contents : Respond(s, item)
  BY <1>1, <1>7 DEF Close, SendMessage, AppEnds, Respond
<1>8. CASE \E p \in Streams \ urls : Push(s, p)
  BY <1>0, <1>1, <1>8 DEF Push, NewHandler
<1> QED
  BY <1>2, <1>3, <1>4, <1>5, <1>6, <1>7, <1>8 DEF ServerMoves

LEMMA Given == ASSUME [Next]_vars PROVE UNCHANGED givenVars
<1>1. CASE UNCHANGED vars \/ UNCHANGED givenVars
  BY <1>1 DEF vars
<1>2. (\E s \in Streams : Deliver(s)) => UNCHANGED givenVars
  BY DEF Deliver
<1>3. \/ \E s \in Streams : OpenWebSocket(s) \/ WebSocketTurn(s) \/ RequestReturns(s) \/ Read(s)
      \/ CheckUrls \/ Ask \/ AllDone \/ LoseConnection
      => UNCHANGED givenVars
  BY DEF OpenWebSocket, WebSocketTurn, RequestReturns, Read, CheckUrls, Ask, AllDone, LoseConnection
<1> QED
  BY <1>1, <1>2, <1>3, StepCases

LEMMA UrlsAreStreams == Spec => [](urls \subseteq Streams)
<1>1. Init => urls \subseteq Streams
  BY DEF Init
<1>2. urls \subseteq Streams /\ [Next]_vars => (urls \subseteq Streams)'
  BY Given DEF givenVars
<1> QED
  BY <1>1, <1>2, PTL DEF Spec

\* Nothing changes on a closed session's stream and in what its application is
\* told, whatever the client still sends and the application still does.
THEOREM ClosedStaysOver == Spec => ClosedIsOver
<1> DEFINE Over == \A s \in Streams : closed[s] =>
                     wire'[s] = wire[s] /\ Len(Told(s)') = Len(Told(s))
<1>1. ASSUME ServerInv, urls \subseteq Streams, NEW s \in Streams, ServerMoves(s) PROVE Over
  <2> SUFFICES ASSUME NEW t \in Streams, closed[t]
               PROVE  wire'[t] = wire[t] /\ Len(Told(t)') = Len(Told(t))
    OBVIOUS
  <2>1. Told(t)' = Told(t)
    BY <1>1, ClosedTold
  <2>2. PICK items : NewItems(s, items)
    BY <1>1, MovesSend
  <2>3. CASE t = s
    <3>1. wire' = [wire EXCEPT ![s] = @ \o << >>]
      BY <2>2, <2>3 DEF NewItems
    <3>2. wire[s] \o << >> = wire[s]
      BY <1>1, ConcatEmptySeq DEF ServerInv, ServerTypeOK
    <3> QED
      BY <1>1, <2>1, <2>3, <3>1, <3>2 DEF ServerInv, ServerTypeOK
  <2>4. CASE t # s
    BY <1>1, <2>1, <2>2, <2>4 DEF NewItems, ServerInv, ServerTypeOK
  <2> QED
    BY <2>3, <2>4
<1>2. ASSUME UNCHANGED serverVars PROVE Over
  BY <1>2 DEF serverVars, Told
<1> HIDE DEF Over
<1>3. ServerInv /\ urls \subseteq Streams /\ [Next]_vars => [Over]_serverVars
  <2> SUFFICES ASSUME ServerInv, urls \subseteq Streams, [Next]_vars PROVE Over
    OBVIOUS
  <2>1. CASE UNCHANGED vars
    BY <1>2, <2>1 DEF vars
  <2>2. CASE \E s \in Streams : ServerMoves(s) \/ Deliver(s)
    BY <1>1, <2>2, DeliverMoves
  <2>3. CASE UNCHANGED serverVars
    BY <1>2, <2>3
  <2> QED
    BY <2>1, <2>2, <2>3, StepCases, ClientAlone
<1>4. ServerInv /\ urls \subseteq Streams /\ [Next]_vars
        => [\A s \in Streams : closed[s] =>
              wire'[s] = wire[s] /\ Len(Told(s)') = Len(Told(s))]_serverVars
  BY <1>3 DEF Over
<1> QED
  BY <1>4, UrlsAreStreams, ServerInvAlways, PTL DEF Spec, ClosedIsOver

-----------------------------------------------------------------------------
(* Reading a stream *)

LEMMA FirstItems ==
  ASSUME NEW T, NEW w \in Seq(T), NEW n \in 0 .. Len(w)
  PROVE  /\ SubSeq(w, 1, n) \in Seq(T) /\ Len(SubSeq(w, 1, n)) = n
         /\ \A i \in 1 .. n : SubSeq(w, 1, n)[i] = w[i]
<1>1. n \in Int /\ 1 \in Int /\ Len(w) \in Nat /\ n >= 0
  BY LenProperties
<1>2. \A i \in 1 .. n : w[i] \in T
  BY <1>1, ElementOfSeq
<1>3. /\ SubSeq(w, 1, n) \in Seq(T)
      /\ Len(SubSeq(w, 1, n)) = IF 1 <= n THEN n - 1 + 1 ELSE 0
      /\ \A i \in 1 .. n - 1 + 1 : SubSeq(w, 1, n)[i] = w[1 + i - 1]
  BY <1>1, <1>2, SubSeqProperties
<1>4. n - 1 + 1 = n /\ (~(1 <= n) => n = 0) /\ \A i \in 1 .. n : 1 + i - 1 = i
  BY <1>1
<1> QED
  BY <1>3, <1>4

LEMMA TakenNext ==
  ASSUME NEW T, NEW w \in Seq(T), NEW n \in Nat, n < Len(w)
  PROVE  /\ SubSeq(w, 1, n) \in Seq(T) /\ w[n + 1] \in T /\ n + 1 \in 1 .. Len(w)
         /\ SubSeq(w, 1, n + 1) = Append(SubSeq(w, 1, n), w[n + 1])
<1>1. /\ Len(w) \in Nat /\ n \in 0 .. Len(w) /\ n + 1 \in 1 .. Len(w)
      /\ 1 \in 1 .. Len(w) /\ n + 1 \in 1 .. Len(w) /\ (n + 1) - 1 = n
  BY LenProperties
<1>2. w[n + 1] \in T /\ SubSeq(w, 1, n) \in Seq(T)
  BY <1>1, ElementOfSeq, FirstItems
<1>3. SubSeq(w, 1, n + 1) = SubSeq(w, 1, (n + 1) - 1) \o <<w[n + 1]>>
  BY <1>1, SubSeqRecursiveSecond
<1> QED
  BY <1>1, <1>2, <1>3, AppendIsConcat

LEMMA TakenSame ==
  ASSUME NEW T, NEW w \in Seq(T), NEW items \in Seq(T), NEW n \in 0 .. Len(w)
  PROVE  SubSeq(w \o items, 1, n) = SubSeq(w, 1, n) /\ n \in 0 .. Len(w \o items)
<1>1. /\ Len(w) \in Nat /\ Len(items) \in Nat /\ Len(w \o items) = Len(w) + Len(items)
      /\ n \in Int /\ 1 \in Int
  BY ConcatProperties, LenProperties
<1>2. CASE n = 0
  BY <1>1, <1>2, SubSeqEmpty
<1>3. CASE n # 0
  <2>1. 1 \in 1 .. Len(w) /\ n \in 1 .. Len(w)
    BY <1>1, <1>3
  <2> QED
    BY <1>1, <2>1, SubSeqOfConcat1
<1> QED
  BY <1>2, <1>3

LEMMA TakenAll ==
  ASSUME NEW T, NEW w \in Seq(T) PROVE SubSeq(w, 1, Len(w)) = w
  BY SubSeqFull

LEMMA ElementsOfAppend ==
  ASSUME NEW T, NEW x \in Seq(T), NEW e \in T
  PROVE  ToSet(Append(x, e)) = ToSet(x) \cup {e}
<1>1. <<e>> \in Seq(T) /\ Append(x, e) = x \o <<e>>
  BY AppendIsConcat, EmptySequences
<1>2. ToSet(x \o <<e>>) = ToSet(x) \cup ToSet(<<e>>)
  BY <1>1, ElementsOfConcat
<1> QED
  BY <1>1, <1>2, ElementOf

\* Items taken from a stream are items of the stream.
LEMMA ElementsTaken ==
  ASSUME NEW T, NEW w \in Seq(T), NEW n \in 1 .. Len(w)
  PROVE  w[n] \in ToSet(w)
  BY DEF ToSet

-----------------------------------------------------------------------------
(* Suffixes *)

LEMMA Backwards ==
  ASSUME NEW T, NEW x \in Seq(T)
  PROVE  /\ Reverse(x) \in Seq(T) /\ Len(Reverse(x)) = Len(x)
         /\ \A i \in 1 .. Len(x) : Reverse(x)[i] = x[(Len(x) - i) + 1]
<1>1. Len(x) \in Nat /\ \A i \in 1 .. Len(x) : x[i] \in T
  BY LenProperties, ElementOfSeq
<1>2. \A i \in 1 .. Len(x) : (Len(x) - i) + 1 \in 1 .. Len(x)
  BY <1>1
<1> QED
  BY <1>1, <1>2 DEF Reverse

\* x is a prefix of y if it is no longer and y begins with its elements.
LEMMA PrefixIs ==
  ASSUME NEW T, NEW x \in Seq(T), NEW y \in Seq(T)
  PROVE  IsPrefix(x, y) <=> Len(x) <= Len(y) /\ \A i \in 1 .. Len(x) : x[i] = y[i]
<1>1. Len(x) \in Nat /\ Len(y) \in Nat /\ SubSeq(x, 1, Len(x)) = x
  BY LenProperties, TakenAll
<1>2. CASE Len(x) <= Len(y)
  <2>0. Len(x) \in 0 .. Len(y)
    BY <1>1, <1>2
  <2>1. PICK z \in Seq(T) : /\ z = SubSeq(y, 1, Len(x)) /\ Len(z) = Len(x)
                            /\ \A i \in 1 .. Len(x) : z[i] = y[i]
    BY <2>0, FirstItems
  <2>2. x = z <=> \A i \in 1 .. Len(x) : x[i] = z[i]
    BY <2>1, SeqEqual
  <2> QED
    BY <1>1, <1>2, <2>1, <2>2 DEF IsPrefix
<1>3. CASE ~(Len(x) <= Len(y))
  BY <1>3 DEF IsPrefix
<1> QED
  BY <1>2, <1>3

LEMMA SuffixEmpty ==
  ASSUME NEW T, NEW y \in Seq(T) PROVE IsSuffix(<< >>, y)
<1>1. /\ << >> \in Seq(T) /\ Reverse(<< >>) \in Seq(T) /\ Reverse(y) \in Seq(T)
      /\ Len(Reverse(<< >>)) = 0 /\ Len(Reverse(y)) \in Nat
  <2>1. << >> \in Seq(T) /\ Len(<< >>) = 0
    OBVIOUS
  <2>2. Reverse(<< >>) \in Seq(T) /\ Len(Reverse(<< >>)) = 0
    BY <2>1, Backwards
  <2>3. Reverse(y) \in Seq(T)
    BY Backwards
  <2> QED
    BY <2>1, <2>2, <2>3, LenProperties
<1>2. IsPrefix(Reverse(<< >>), Reverse(y))
  BY <1>1, PrefixIs
<1> QED
  BY <1>2 DEF IsSuffix

\* Both grow by the same element.
LEMMA SuffixGrows ==
  ASSUME NEW T, NEW x \in Seq(T), NEW y \in Seq(T), NEW e \in T, IsSuffix(x, y)
  PROVE  IsSuffix(Append(x, e), Append(y, e))
<1>1. PICK a \in Seq(T), b \in Seq(T) : a = Append(x, e) /\ b = Append(y, e)
  BY AppendProperties
<1>2. /\ Len(x) \in Nat /\ Len(y) \in Nat /\ Len(a) = Len(x) + 1 /\ Len(b) = Len(y) + 1
      /\ \A i \in 1 .. Len(x) : a[i] = x[i]
      /\ \A i \in 1 .. Len(y) : b[i] = y[i]
      /\ a[Len(x) + 1] = e /\ b[Len(y) + 1] = e
  BY <1>1, AppendProperties, LenProperties
<1>3. /\ Reverse(x) \in Seq(T) /\ Reverse(y) \in Seq(T)
      /\ Len(Reverse(x)) = Len(x) /\ Len(Reverse(y)) = Len(y)
      /\ \A i \in 1 .. Len(x) : Reverse(x)[i] = x[(Len(x) - i) + 1]
      /\ \A i \in 1 .. Len(y) : Reverse(y)[i] = y[(Len(y) - i) + 1]
  BY Backwards
<1>4. /\ Reverse(a) \in Seq(T) /\ Reverse(b) \in Seq(T)
      /\ Len(Reverse(a)) = Len(x) + 1 /\ Len(Reverse(b)) = Len(y) + 1
      /\ \A i \in 1 .. Len(x) + 1 : Reverse(a)[i] = a[(Len(x) + 1 - i) + 1]
      /\ \A i \in 1 .. Len(y) + 1 : Reverse(b)[i] = b[(Len(y) + 1 - i) + 1]
  BY <1>2, Backwards
<1>5. Len(x) <= Len(y) /\ \A i \in 1 .. Len(x) : Reverse(x)[i] = Reverse(y)[i]
  BY <1>3, PrefixIs DEF IsSuffix
<1>6. ASSUME NEW i \in 1 .. Len(x) + 1 PROVE Reverse(a)[i] = Reverse(b)[i]
  <2>1. CASE i = 1
    BY <1>2, <1>4, <1>5, <2>1
  <2>2. CASE i # 1
    <3>1. /\ i - 1 \in 1 .. Len(x) /\ i - 1 \in 1 .. Len(y)
          /\ i \in 1 .. Len(x) + 1 /\ i \in 1 .. Len(y) + 1
      BY <1>2, <1>5, <2>2
    <3>2. /\ Reverse(a)[i] = a[(Len(x) - (i - 1)) + 1]
          /\ Reverse(b)[i] = b[(Len(y) - (i - 1)) + 1]
      <4>1. /\ (Len(x) + 1 - i) + 1 = (Len(x) - (i - 1)) + 1
            /\ (Len(y) + 1 - i) + 1 = (Len(y) - (i - 1)) + 1
        BY <1>2
      <4> QED
        BY <1>4, <3>1, <4>1
    <3>3. /\ (Len(x) - (i - 1)) + 1 \in 1 .. Len(x)
          /\ (Len(y) - (i - 1)) + 1 \in 1 .. Len(y)
      BY <1>2, <3>1
    <3>4. Reverse(a)[i] = Reverse(x)[i - 1] /\ Reverse(b)[i] = Reverse(y)[i - 1]
      BY <1>2, <1>3, <3>1, <3>2, <3>3
    <3> QED
      BY <1>5, <3>1, <3>4
  <2> QED
    BY <2>1, <2>2
<1>7. IsPrefix(Reverse(a), Reverse(b))
  <2>1. Len(Reverse(a)) <= Len(Reverse(b))
    BY <1>2, <1>4, <1>5
  <2> QED
    BY <1>4, <1>6, <2>1, PrefixIs
<1> QED
  BY <1>1, <1>7 DEF IsSuffix

LEMMA HeadOfAppend ==
  ASSUME NEW T, NEW x \in Seq(T), x # << >>, NEW e \in T
  PROVE  /\ Append(x, e) # << >> /\ Head(Append(x, e)) = Head(x)
         /\ Tail(x) \in Seq(T) /\ Tail(Append(x, e)) = Append(Tail(x), e)
  BY HeadTailAppend, HeadTailProperties, AppendProperties

-----------------------------------------------------------------------------
(* The steps of the client *)

LEMMA ReadTypes ==
  ASSUME ServerInv, ClientInv, NEW s \in Streams
  PROVE  /\ read[s] \in Nat /\ read[s] \in 0 .. Len(wire[s]) /\ Len(wire[s]) \in Nat
         /\ wire[s] \in Seq(Sendables) /\ Taken(s) \in Seq(Sendables)
<1>1. /\ read[s] \in Nat /\ read[s] \in 0 .. Len(wire[s]) /\ wire[s] \in Seq(Sendables)
  BY DEF ClientInv, ClientTypes, TypeOK, ServerTypeOK
<1>2. Len(wire[s]) \in Nat
  BY <1>1, LenProperties
<1> QED
  BY <1>1, <1>2, FirstItems DEF Taken

\* A step that leaves alone what the client knows of stream t.
LEMMA StreamSame ==
  ASSUME ClientInv, NEW t \in Streams, UNCHANGED <<givenVars, pushes, files>>,
         \A u \in Streams : waiter[u] = "returned" => waiter'[u] = "returned",
         \A u \in Streams : waiter[u] = "returned" => events'[u] = events[u],
         main' = main \/ main # "over",
         waiter'[t] = waiter[t], events'[t] = events[t], read'[t] = read[t],
         Taken(t)' = Taken(t), "fin" \in ToSet(wire[t]) => wire'[t] = wire[t]
  PROVE  RequestInv(t)' /\ FileInv(t)' /\ PushInv(t)'
<1>0. RequestInv(t) /\ FileInv(t) /\ PushInv(t) /\ urls \subseteq Streams
  BY DEF ClientInv, ClientTypes, TypeOK
<1>1. RequestInv(t)'
  BY <1>0 DEF RequestInv, givenVars
<1>2. PushInv(t)'
  BY <1>0 DEF PushInv
<1>3. FileInv(t)'
  <2>1. Pushed' = Pushed /\ \A u : File(u)' = File(u)
    BY DEF Pushed, File, givenVars
  <2> SUFFICES ASSUME waiter[t] = "returned"
               PROVE  FileInv(t)'
    BY DEF FileInv
  <2>2. CASE \E u \in urls : /\ waiter[u] = "returned" /\ File(u) = File(t)
                             /\ files[File(t)] = Written(events[u])
    <3>1. PICK u \in urls : /\ waiter[u] = "returned" /\ File(u) = File(t)
                            /\ files[File(t)] = Written(events[u])
      BY <2>2
    <3>2. /\ waiter'[u] = "returned" /\ File(u)' = File(t)' /\ u \in urls'
          /\ files'[File(t)'] = Written(events'[u])
      BY <1>0, <2>1, <3>1 DEF givenVars
    <3> QED
      BY <3>2 DEF FileInv
  <2>3. CASE main = "over" /\ \E p \in Pushed : /\ File(p) = File(t)
                                                /\ files[File(t)] = Written(pushes[p])
    BY <2>1, <2>3 DEF FileInv
  <2> QED
    BY <1>0, <2>2, <2>3 DEF FileInv
<1> QED
  BY <1>1, <1>2, <1>3

\* A step of the server: what the client has read stays what it was.
LEMMA GrowsKeeps ==
  ASSUME ServerInv, ServerInv', ClientInv, NEW s \in Streams, NEW items, NewItems(s, items),
         UNCHANGED <<givenVars, read, waiter, events, pushes, ws, files, main, lost>>,
         upstream' \in [Streams -> Seq(ClientItems)],
         scheme = "wss" => ws.sent # 0
  PROVE  ClientInv'
<1>1. ASSUME NEW t \in Streams
      PROVE  /\ Taken(t)' = Taken(t) /\ read'[t] \in 0 .. Len(wire'[t])
             /\ "fin" \in ToSet(wire[t]) => wire'[t] = wire[t]
             /\ ToSet(wire'[t]) \cap urls = {}
  <2>1. CASE t # s
    <3>1. wire'[t] = wire[t]
      BY <2>1 DEF NewItems, ServerInv, ServerTypeOK
    <3> QED
      BY <3>1, ReadTypes DEF Taken, ClientInv, OwnStreams
  <2>2. CASE t = s
    <3>1. /\ wire'[s] = wire[s] \o items /\ items \in Seq(Sendables)
          /\ wire[s] \in Seq(Sendables)
      BY DEF NewItems, ServerInv, ServerTypeOK
    <3>2. /\ SubSeq(wire[s] \o items, 1, read[s]) = SubSeq(wire[s], 1, read[s])
          /\ read[s] \in 0 .. Len(wire[s] \o items)
      BY <3>1, ReadTypes, TakenSame
    <3>3. Taken(s)' = Taken(s) /\ read'[s] \in 0 .. Len(wire'[s])
      BY <3>1, <3>2 DEF Taken
    <3>4. "fin" \in ToSet(wire[s]) => wire'[s] = wire[s]
      BY <3>1, ConcatEmptySeq DEF NewItems
    <3>5. ToSet(wire'[s]) = ToSet(wire[s]) \cup ToSet(items)
      BY <3>1, ElementsOfConcat
    <3>6. ToSet(wire'[s]) \cap urls = {}
      BY <3>5 DEF NewItems, ClientInv, OwnStreams
    <3> QED
      BY <2>2, <3>3, <3>4, <3>6
  <2> QED
    BY <2>1, <2>2
<1>2. ClientTypes'
  <2>1. ServerTypeOK' /\ \A t \in Streams : read'[t] \in 0 .. Len(wire'[t])
    BY <1>1 DEF ServerInv
  <2> QED
    BY <2>1 DEF ClientInv, ClientTypes, TypeOK, givenVars
<1>3. WebSocketInv'
  <2>1. urls \subseteq Streams
    BY DEF ClientInv, ClientTypes, TypeOK
  <2> QED
    BY <1>1, <2>1 DEF ClientInv, WebSocketInv, givenVars
<1>4. OwnStreams'
  BY <1>1 DEF ClientInv, OwnStreams, givenVars
<1>5. ASSUME NEW t \in Streams PROVE RequestInv(t)' /\ FileInv(t)' /\ PushInv(t)'
  BY <1>1, StreamSame
<1> QED
  BY <1>2, <1>3, <1>4, <1>5 DEF ClientInv

\* Before the client's first message on a WebSocket, the server does nothing.
LEMMA ServerStepKeepsClient ==
  ASSUME ServerInv, ClientInv, NEW s \in Streams, ServerMoves(s),
         scheme = "other" \/ app[s] \in {"scheduled", "running"},
         UNCHANGED <<givenVars, clientVars>>
  PROVE  ClientInv'
<1>1. ServerInv'
  BY ServerMovesKeep
<1>2. PICK items : NewItems(s, items)
  BY MovesSend DEF ClientInv, ClientTypes, TypeOK
<1>3. scheme = "wss" => ws.sent # 0
  BY RunningHandler DEF ClientInv, WebSocketInv
<1>4. upstream' \in [Streams -> Seq(ClientItems)]
  BY DEF clientVars, ClientInv, ClientTypes, TypeOK
<1>5. UNCHANGED <<givenVars, read, waiter, events, pushes, ws, files, main, lost>>
  BY DEF clientVars
<1> QED
  BY <1>1, <1>2, <1>3, <1>4, <1>5, GrowsKeeps

LEMMA DeliverKeepsClient ==
  ASSUME ServerInv, ClientInv, NEW s \in Streams, Deliver(s)
  PROVE  ClientInv'
<1>1. ServerMoves(s) /\ ServerInv'
  BY DeliverMoves, ServerMovesKeep
<1>2. PICK items : NewItems(s, items)
  BY <1>1, MovesSend DEF ClientInv, ClientTypes, TypeOK
<1>3. scheme = "wss" => ws.sent # 0
  BY DEF Deliver, ClientInv, WebSocketInv
<1>4. upstream' \in [Streams -> Seq(ClientItems)]
  <2>1. upstream[s] \in Seq(ClientItems) /\ upstream[s] # << >>
    BY DEF Deliver, ClientInv, ClientTypes, TypeOK
  <2>2. Tail(upstream[s]) \in Seq(ClientItems)
    BY <2>1, HeadTailProperties
  <2> QED
    BY <2>2 DEF Deliver, ClientInv, ClientTypes, TypeOK
<1>5. UNCHANGED <<givenVars, read, waiter, events, pushes, ws, files, main, lost>>
  BY DEF Deliver
<1> QED
  BY <1>1, <1>2, <1>3, <1>4, <1>5, GrowsKeeps

\* The URL checks, the loss of the connection: nothing of a stream changes.
LEMMA OthersKeepClient ==
  ASSUME ServerInv, ClientInv, CheckUrls \/ LoseConnection
  PROVE  ClientInv'
<1>1. /\ UNCHANGED <<serverVars, givenVars, upstream, read, waiter, events, pushes, ws, files>>
      /\ lost' \in BOOLEAN /\ main' \in {"running", "failed"}
      /\ main # "over"
      /\ main' = "running" => main = "starting" \/ main = "running"
  BY DEF CheckUrls, LoseConnection, ClientInv, ClientTypes, TypeOK
<1>2. UNCHANGED wire /\ UNCHANGED kind /\ ServerTypeOK'
  <2>1. ServerInv'
    BY <1>1, ServerSame
  <2> QED
    BY <1>1, <2>1 DEF serverVars, ServerInv
<1>3. \A t : Taken(t)' = Taken(t)
  BY <1>1, <1>2 DEF Taken
<1>4. ClientTypes'
  BY <1>1, <1>2 DEF ClientInv, ClientTypes, TypeOK, givenVars
<1>5. WebSocketInv'
  BY <1>1, <1>2, <1>3 DEF ClientInv, WebSocketInv, givenVars
<1>6. OwnStreams'
  BY <1>1, <1>2 DEF ClientInv, OwnStreams, givenVars
<1>7. ASSUME NEW t \in Streams PROVE RequestInv(t)' /\ FileInv(t)' /\ PushInv(t)'
  BY <1>1, <1>2, <1>3, StreamSame
<1> QED
  BY <1>4, <1>5, <1>6, <1>7 DEF ClientInv

LEMMA AskKeepsClient ==
  ASSUME ServerInv, ClientInv, Ask
  PROVE  ClientInv'
<1>1. /\ scheme = "https" /\ main = "running" /\ \A s \in Streams : waiter[s] = "none"
      /\ upstream' = [s \in Streams |-> IF s \in urls THEN RequestItems ELSE << >>]
      /\ waiter' = [s \in Streams |-> IF s \in urls THEN "pending" ELSE "none"]
      /\ UNCHANGED <<serverVars, givenVars, read, events, pushes, ws, files, main, lost>>
  BY DEF Ask
<1>2. UNCHANGED wire /\ ServerTypeOK'
  <2>1. ServerInv'
    BY <1>1, ServerSame
  <2> QED
    BY <1>1, <2>1 DEF serverVars, ServerInv
<1>3. \A t : Taken(t)' = Taken(t)
  BY <1>1, <1>2 DEF Taken
<1>4. ClientTypes'
  <2>1. upstream' \in [Streams -> Seq(ClientItems)]
    <3>1. << >> \in Seq(ClientItems) /\ RequestItems \in Seq(ClientItems)
      <4>1. "post" \in ClientItems /\ "body" \in ClientItems /\ "get" \in ClientItems
        BY DEF ClientItems
      <4> QED
        BY <4>1 DEF RequestItems
    <3> QED
      BY <1>1, <3>1
  <2> QED
    BY <1>1, <1>2, <2>1 DEF ClientInv, ClientTypes, TypeOK, givenVars
<1>5. WebSocketInv'
  BY <1>1 DEF ClientInv, WebSocketInv, givenVars
<1>6. OwnStreams'
  BY <1>1, <1>2 DEF ClientInv, OwnStreams, givenVars
<1>7. ASSUME NEW t \in Streams PROVE RequestInv(t)' /\ FileInv(t)' /\ PushInv(t)'
  <2>1. RequestInv(t) /\ PushInv(t)
    BY DEF ClientInv
  <2>2. RequestInv(t)'
    BY <1>1, <1>2, <1>3, <2>1 DEF RequestInv, givenVars
  <2>3. PushInv(t)'
    BY <1>1, <1>3, <2>1 DEF PushInv
  <2>4. FileInv(t)'
    BY <1>1 DEF FileInv
  <2> QED
    BY <2>2, <2>3, <2>4
<1> QED
  BY <1>4, <1>5, <1>6, <1>7 DEF ClientInv

\* The server's side of a client step.
LEMMA ServerAlone ==
  ASSUME ServerInv, UNCHANGED serverVars
  PROVE  ServerTypeOK' /\ UNCHANGED <<wire, kind>>
<1>1. ServerInv'
  BY ServerSame
<1> QED
  BY <1>1 DEF ServerInv, serverVars

LEMMA TransmitType ==
  ASSUME ClientInv, NEW s \in Streams, NEW items \in Seq(ClientItems), Transmit(s, items)
  PROVE  upstream' \in [Streams -> Seq(ClientItems)]
<1>1. upstream \in [Streams -> Seq(ClientItems)] /\ upstream[s] \in Seq(ClientItems)
  BY DEF ClientInv, ClientTypes, TypeOK
<1>2. upstream[s] \o items \in Seq(ClientItems)
  BY <1>1, ConcatProperties
<1> QED
  BY <1>1, <1>2 DEF Transmit

LEMMA ClientWords ==
  /\ <<"connect", "text">> \in Seq(ClientItems) /\ <<"text">> \in Seq(ClientItems)
  /\ <<"closing">> \in Seq(ClientItems)
<1>1. "connect" \in ClientItems /\ "text" \in ClientItems /\ "closing" \in ClientItems
  BY DEF ClientItems
<1> QED
  BY <1>1

LEMMA OpenKeepsClient ==
  ASSUME ServerInv, ClientInv, NEW s \in Streams, OpenWebSocket(s)
  PROVE  ClientInv'
<1>1. /\ scheme = "wss" /\ main = "running" /\ ws.sent = 0
      /\ Transmit(s, <<"connect", "text">>) /\ ws' = [ws EXCEPT !.sent = 1]
      /\ UNCHANGED <<serverVars, givenVars, read, waiter, events, pushes, files, main, lost>>
  BY DEF OpenWebSocket
<1>2. ServerTypeOK' /\ UNCHANGED <<wire, kind>>
  BY <1>1, ServerAlone
<1>3. \A t : Taken(t)' = Taken(t)
  BY <1>1, <1>2 DEF Taken
<1>4. /\ ws \in [sent : 0 .. 2, received : 0 .. 2, queued : Nat, closing : BOOLEAN]
      /\ ws.sent - ws.received \in {0, 1} /\ ws.received = 0
  BY <1>1 DEF ClientInv, ClientTypes, TypeOK
<1>5. /\ ws' \in [sent : 0 .. 2, received : 0 .. 2, queued : Nat, closing : BOOLEAN]
      /\ ws'.sent = 1 /\ ws'.received = 0 /\ ws'.queued = ws.queued
  BY <1>1, <1>4
<1>6. ClientTypes'
  <2>1. upstream' \in [Streams -> Seq(ClientItems)]
    BY <1>1, ClientWords, TransmitType
  <2>2. ws'.sent - ws'.received \in {0, 1}
    BY <1>5
  <2> QED
    BY <1>1, <1>2, <1>5, <2>1, <2>2 DEF ClientInv, ClientTypes, TypeOK, givenVars
<1>7. WebSocketInv'
  BY <1>1, <1>3, <1>4, <1>5 DEF ClientInv, WebSocketInv, givenVars
<1>8. OwnStreams'
  BY <1>1, <1>2 DEF ClientInv, OwnStreams, givenVars
<1>9. ASSUME NEW t \in Streams PROVE RequestInv(t)' /\ FileInv(t)' /\ PushInv(t)'
  BY <1>1, <1>2, <1>3, StreamSame
<1> QED
  BY <1>6, <1>7, <1>8, <1>9 DEF ClientInv

\* A text is queued only after the first message of the client's.
LEMMA QueuedAnswers ==
  ASSUME ServerInv, ClientInv, scheme = "wss", NEW s \in Streams, s \in urls, ws.queued > 0
  PROVE  ws.sent # 0
<1>1. SUFFICES ASSUME ws.sent = 0 PROVE FALSE
  OBVIOUS
<1>2. kind[s] = "none" /\ ws.received + ws.queued = Len(Only(Taken(s), {"data"}))
  BY <1>1 DEF ClientInv, WebSocketInv
<1>3. wire[s] = << >>
  BY <1>2 DEF ServerInv, HandlerShape
<1>4. Taken(s) = << >>
  <2>1. read[s] = 0 /\ Len(<< >>) = 0
    BY <1>3, ReadTypes
  <2> QED
    BY <1>3, <2>1, TakenAll, EmptySequences DEF Taken
<1>5. Len(Only(Taken(s), {"data"})) = 0
  BY <1>4, OnlyEmpty
<1>6. ws.received \in Nat /\ ws.queued \in Nat
  BY DEF ClientInv, ClientTypes, TypeOK
<1> QED
  BY <1>2, <1>5, <1>6

LEMMA Received ==
  ASSUME ws \in [sent : 0 .. 2, received : 0 .. 2, queued : Nat, closing : BOOLEAN],
         NEW more \in Nat, Receives(more)
  PROVE  /\ ws.queued \in Nat /\ ws.queued > 0
         /\ ws' = [sent |-> ws.sent + more, received |-> ws.received + 1,
                    queued |-> ws.queued - 1, closing |-> ws.closing]
  BY DEF Receives

LEMMA TurnKeepsClient ==
  ASSUME ServerInv, ClientInv, NEW s \in Streams, WebSocketTurn(s)
  PROVE  ClientInv'
<1>1. /\ scheme = "wss" /\ s \in urls /\ main = "running" /\ ws.queued > 0
      /\ UNCHANGED <<serverVars, givenVars, read, waiter, events, pushes, files, lost>>
  BY DEF WebSocketTurn, Receives
<1>2. ServerTypeOK' /\ UNCHANGED <<wire, kind>>
  BY <1>1, ServerAlone
<1>3. \A t : Taken(t)' = Taken(t)
  BY <1>1, <1>2 DEF Taken
<1>4. /\ ws \in [sent : 0 .. 2, received : 0 .. 2, queued : Nat, closing : BOOLEAN]
      /\ ws.sent = ws.received + 1 /\ urls \subseteq Streams
  BY <1>1, QueuedAnswers DEF ClientInv, ClientTypes, TypeOK, WebSocketInv
<1>5. /\ ws' \in [sent : 0 .. 2, received : 0 .. 2, queued : Nat, closing : BOOLEAN]
      /\ ws'.sent - ws'.received \in {0, 1} /\ ws'.sent # 0
      /\ ws'.received + ws'.queued = ws.received + ws.queued
      /\ main' \in {"running", "failed", "over"}
      /\ main' = "running" => ws'.sent = ws'.received + 1
      /\ upstream' \in [Streams -> Seq(ClientItems)]
  <2>1. CASE ws.received = 0 /\ Receives(1) /\ SendText(s) /\ UNCHANGED main
    <3>1. /\ ws.queued \in Nat /\ ws.queued > 0
          /\ ws' = [sent |-> ws.sent + 1, received |-> ws.received + 1,
                     queued |-> ws.queued - 1, closing |-> ws.closing]
      BY <1>4, <2>1, Received
    <3>2. upstream' \in [Streams -> Seq(ClientItems)]
      BY <2>1, ClientWords, TransmitType DEF SendText
    <3> QED
      <4>1. /\ ws.sent + 1 \in 0 .. 2 /\ ws.received + 1 \in 0 .. 2 /\ ws.queued - 1 \in Nat
            /\ ws.closing \in BOOLEAN
            /\ ws.received + 1 + (ws.queued - 1) = ws.received + ws.queued
            /\ ws.sent + 1 - (ws.received + 1) \in {0, 1} /\ ws.sent + 1 # 0
        BY <1>4, <2>1, <3>1
      <4>2. main' = "running" => ws.sent + 1 = ws.received + 1 + 1
        BY <1>4, <2>1
      <4>3. ws' \in [sent : 0 .. 2, received : 0 .. 2, queued : Nat, closing : BOOLEAN]
        BY <3>1, <4>1
      <4>4. /\ ws'.sent = ws.sent + 1 /\ ws'.received = ws.received + 1
            /\ ws'.queued = ws.queued - 1
        BY <3>1
      <4> QED
        BY <1>1, <2>1, <3>2, <4>1, <4>2, <4>3, <4>4
  <2>2. CASE ws.received = 0 /\ Receives(0) /\ main' = "failed" /\ UNCHANGED upstream
    <3>1. /\ ws.queued \in Nat /\ ws.queued > 0
          /\ ws' = [sent |-> ws.sent + 0, received |-> ws.received + 1,
                     queued |-> ws.queued - 1, closing |-> ws.closing]
      BY <1>4, <2>2, Received
    <3>2. upstream' \in [Streams -> Seq(ClientItems)]
      BY <2>2 DEF ClientInv, ClientTypes, TypeOK
    <3> QED
      <4>1. /\ ws.sent + 0 \in 0 .. 2 /\ ws.received + 1 \in 0 .. 2 /\ ws.queued - 1 \in Nat
            /\ ws.closing \in BOOLEAN
            /\ ws.received + 1 + (ws.queued - 1) = ws.received + ws.queued
            /\ ws.sent + 0 - (ws.received + 1) \in {0, 1} /\ ws.sent + 0 # 0
        BY <1>4, <2>2, <3>1
      <4>2. main' = "running" => ws.sent + 0 = ws.received + 1 + 1
        BY <1>4, <2>2
      <4>3. ws' \in [sent : 0 .. 2, received : 0 .. 2, queued : Nat, closing : BOOLEAN]
        BY <3>1, <4>1
      <4>4. /\ ws'.sent = ws.sent + 0 /\ ws'.received = ws.received + 1
            /\ ws'.queued = ws.queued - 1
        BY <3>1
      <4> QED
        BY <1>1, <2>2, <3>2, <4>1, <4>2, <4>3, <4>4
  <2>3. CASE ws.received = 1 /\ Receives(0) /\ CloseWebSocket(s) /\ main' = "over"
    <3>1. /\ ws.queued \in Nat /\ ws.queued > 0
          /\ ws' = [sent |-> ws.sent + 0, received |-> ws.received + 1,
                     queued |-> ws.queued - 1, closing |-> ws.closing]
      BY <1>4, <2>3, Received
    <3>2. upstream' \in [Streams -> Seq(ClientItems)]
      BY <2>3, ClientWords, TransmitType DEF CloseWebSocket
    <3> QED
      <4>1. /\ ws.sent + 0 \in 0 .. 2 /\ ws.received + 1 \in 0 .. 2 /\ ws.queued - 1 \in Nat
            /\ ws.closing \in BOOLEAN
            /\ ws.received + 1 + (ws.queued - 1) = ws.received + ws.queued
            /\ ws.sent + 0 - (ws.received + 1) \in {0, 1} /\ ws.sent + 0 # 0
        BY <1>4, <2>3, <3>1
      <4>2. main' = "running" => ws.sent + 0 = ws.received + 1 + 1
        BY <1>4, <2>3
      <4>3. ws' \in [sent : 0 .. 2, received : 0 .. 2, queued : Nat, closing : BOOLEAN]
        BY <3>1, <4>1
      <4>4. /\ ws'.sent = ws.sent + 0 /\ ws'.received = ws.received + 1
            /\ ws'.queued = ws.queued - 1
        BY <3>1
      <4>5. main' \in {"running", "failed", "over"} /\ main' # "running"
        BY <2>3
      <4>6. /\ ws'.sent - ws'.received \in {0, 1} /\ ws'.sent # 0
            /\ ws'.received + ws'.queued = ws.received + ws.queued
        BY <1>4, <2>3, <3>1, <4>4
      <4> QED
        BY <3>2, <4>3, <4>5, <4>6
  <2> QED
    BY <2>1, <2>2, <2>3 DEF WebSocketTurn
<1>6. ClientTypes'
  BY <1>1, <1>2, <1>5 DEF ClientInv, ClientTypes, TypeOK, givenVars
<1>7. WebSocketInv'
  <2>1. \A u \in urls : ws'.received + ws'.queued = Len(Only(Taken(u)', {"data"}))
    BY <1>1, <1>3, <1>5 DEF ClientInv, WebSocketInv
  <2> QED
    BY <1>1, <1>5, <2>1 DEF ClientInv, WebSocketInv, givenVars
<1>8. OwnStreams'
  BY <1>1, <1>2 DEF ClientInv, OwnStreams, givenVars
<1>9. ASSUME NEW t \in Streams PROVE RequestInv(t)' /\ FileInv(t)' /\ PushInv(t)'
  BY <1>1, <1>2, <1>3, StreamSame
<1> QED
  BY <1>6, <1>7, <1>8, <1>9 DEF ClientInv

LEMMA FileNames ==
  ASSUME NEW s \in Streams
  PROVE  /\ File(s) \in Streams
         /\ clash => \A t \in Streams : File(t) = File(s)
         /\ ~clash => File(s) = s
  BY DEF File

LEMMA WrittenType ==
  ASSUME NEW T, NEW content \in Seq(T)
  PROVE  Written(content) \in Seq({"absent", "data", "fin"})
<1>1. Written(content) \in Seq({"data", "fin"})
  BY OnlyTypeOf DEF Written
<1> QED
  BY <1>1, SeqMonotonic

\* The file of the one that returns takes the place of the others of its name.
LEMMA ReturnKeepsClient ==
  ASSUME ServerInv, ClientInv, NEW s \in Streams, RequestReturns(s)
  PROVE  ClientInv'
<1>1. /\ main = "running" /\ waiter[s] = "done"
      /\ waiter' = [waiter EXCEPT ![s] = "returned"]
      /\ files' = [files EXCEPT ![File(s)] = Written(events[s])]
      /\ UNCHANGED <<serverVars, givenVars, upstream, read, events, pushes, ws, main, lost>>
  BY DEF RequestReturns
<1>2. ServerTypeOK' /\ UNCHANGED <<wire, kind>>
  BY <1>1, ServerAlone
<1>3. \A t : Taken(t)' = Taken(t)
  BY <1>1, <1>2 DEF Taken
<1>4. /\ waiter \in [Streams -> {"none", "pending", "done", "returned"}]
      /\ files \in [Streams -> Seq({"absent", "data", "fin"})]
      /\ urls \subseteq Streams /\ events[s] \in Seq(Contents)
      /\ File(s) \in Streams
  BY FileNames DEF ClientInv, ClientTypes, TypeOK
<1>5. ClientTypes'
  <2>1. files' \in [Streams -> Seq({"absent", "data", "fin"})]
    BY <1>1, <1>4, WrittenType
  <2> QED
    BY <1>1, <1>2, <1>4, <2>1 DEF ClientInv, ClientTypes, TypeOK, givenVars
<1>6. WebSocketInv'
  BY <1>1, <1>2, <1>3 DEF ClientInv, WebSocketInv, givenVars
<1>7. OwnStreams'
  BY <1>1, <1>2 DEF ClientInv, OwnStreams, givenVars
<1>8. ASSUME NEW t \in Streams PROVE RequestInv(t)' /\ FileInv(t)' /\ PushInv(t)'
  <2>1. RequestInv(t) /\ RequestInv(s) /\ FileInv(t) /\ PushInv(t)
    BY DEF ClientInv
  <2>2. RequestInv(t)'
    BY <1>1, <1>2, <1>3, <1>4, <2>1 DEF RequestInv, givenVars
  <2>3. PushInv(t)'
    BY <1>1, <1>3, <2>1 DEF PushInv
  <2>4. FileInv(t)'
    <3>1. s \in urls /\ \A u : File(u)' = File(u)
      BY <1>1, <2>1 DEF RequestInv, File, givenVars
    <3>2. waiter'[s] = "returned" /\ files'[File(s)] = Written(events[s])
      BY <1>1, <1>4
    <3>3. CASE File(t) = File(s)
      <4>1. /\ s \in urls' /\ waiter'[s] = "returned" /\ File(s)' = File(t)'
            /\ files'[File(t)'] = Written(events'[s])
        BY <1>1, <3>1, <3>2, <3>3 DEF givenVars
      <4> QED
        BY <4>1 DEF FileInv
    <3>4. CASE File(t) # File(s) /\ waiter[t] = "returned"
      <4>1. PICK u \in urls : /\ waiter[u] = "returned" /\ File(u) = File(t)
                              /\ files[File(t)] = Written(events[u])
        BY <1>1, <2>1, <3>4 DEF FileInv
      <4>2. File(t) \in Streams
        BY FileNames
      <4>3. /\ u \in urls' /\ waiter'[u] = "returned" /\ File(u)' = File(t)'
            /\ files'[File(t)'] = Written(events'[u])
        BY <1>1, <1>4, <3>1, <3>4, <4>1, <4>2 DEF givenVars
      <4> QED
        BY <4>3 DEF FileInv
    <3>5. CASE File(t) # File(s) /\ waiter[t] # "returned"
      BY <1>1, <1>4, <3>5 DEF FileInv
    <3> QED
      BY <3>3, <3>4, <3>5
  <2> QED
    BY <2>2, <2>3, <2>4
<1> QED
  BY <1>5, <1>6, <1>7, <1>8 DEF ClientInv

LEMMA AllDoneKeepsClient ==
  ASSUME ServerInv, ClientInv, AllDone
  PROVE  ClientInv'
<1>1. /\ scheme = "https" /\ main = "running" /\ main' = "over" /\ SavePushes
      /\ UNCHANGED <<serverVars, givenVars, upstream, read, waiter, events, pushes, ws, lost>>
  BY DEF AllDone
<1>2. ServerTypeOK' /\ UNCHANGED <<wire, kind>>
  BY <1>1, ServerAlone
<1>3. \A t : Taken(t)' = Taken(t)
  BY <1>1, <1>2 DEF Taken
<1>4. /\ files \in [Streams -> Seq({"absent", "data", "fin"})]
      /\ pushes \in [Streams -> Seq(Contents \cup {"promise"})]
      /\ \A p \in Pushed : p \in Streams
      /\ \A p \in Streams : Written(pushes[p]) \in Seq({"absent", "data", "fin"})
  BY WrittenType DEF ClientInv, ClientTypes, TypeOK, Pushed
<1>5. \/ /\ clash
         /\ \E p \in Pushed : files' = [files EXCEPT ![File(p)] = Written(pushes[p])]
      \/ /\ ~clash \/ Pushed = {}
         /\ files' = [s \in Streams |-> IF s \in Pushed THEN Written(pushes[s]) ELSE files[s]]
  BY <1>1 DEF SavePushes
<1>6. ClientTypes'
  <2>1. files' \in [Streams -> Seq({"absent", "data", "fin"})]
    BY <1>4, <1>5
  <2> QED
    BY <1>1, <1>2, <2>1 DEF ClientInv, ClientTypes, TypeOK, givenVars
<1>7. WebSocketInv'
  BY <1>1, <1>2, <1>3 DEF ClientInv, WebSocketInv, givenVars
<1>8. OwnStreams'
  BY <1>1, <1>2 DEF ClientInv, OwnStreams, givenVars
<1>9. ASSUME NEW t \in Streams PROVE RequestInv(t)' /\ FileInv(t)' /\ PushInv(t)'
  <2>1. RequestInv(t) /\ FileInv(t) /\ PushInv(t)
    BY DEF ClientInv
  <2>2. RequestInv(t)'
    BY <1>1, <1>2, <1>3, <2>1 DEF RequestInv, givenVars
  <2>3. PushInv(t)'
    BY <1>1, <1>3, <2>1 DEF PushInv
  <2>4. FileInv(t)'
    <3>0. Pushed' = Pushed /\ \A u : File(u)' = File(u)
      BY <1>1 DEF Pushed, File, givenVars
    <3>1.
      ASSUME NEW p \in Pushed, File(p) = File(t), files'[File(t)] = Written(pushes[p])
      PROVE  FileInv(t)'
      <4>1. /\ main' = "over" /\ p \in Pushed' /\ File(p)' = File(t)'
            /\ files'[File(t)'] = Written(pushes'[p])
        BY <1>1, <3>0, <3>1
      <4> QED
        BY <4>1 DEF FileInv
    <3>2. CASE clash /\ Pushed # {}
      <4>1. PICK p \in Pushed : files' = [files EXCEPT ![File(p)] = Written(pushes[p])]
        BY <1>5, <3>2
      <4>2. p \in Streams /\ File(p) \in Streams /\ File(p) = File(t)
        BY <1>4, <3>2, FileNames
      <4>3. files'[File(t)] = Written(pushes[p])
        BY <1>4, <4>1, <4>2
      <4> QED
        BY <3>1, <4>2, <4>3
    <3>3. CASE ~clash /\ t \in Pushed
      <4>1. File(t) = t /\ files'[t] = Written(pushes[t])
        BY <1>5, <3>3, FileNames
      <4> QED
        BY <3>1, <3>3, <4>1
    <3>4. CASE (clash /\ Pushed = {}) \/ (~clash /\ t \notin Pushed)
      <4>1. files'[File(t)] = files[File(t)]
        BY <1>5, <3>4, FileNames
      <4> SUFFICES ASSUME waiter[t] = "returned" PROVE FileInv(t)'
        BY <1>1 DEF FileInv
      <4>2. PICK u \in urls : /\ waiter[u] = "returned" /\ File(u) = File(t)
                              /\ files[File(t)] = Written(events[u])
        BY <1>1, <2>1 DEF FileInv
      <4>3. /\ u \in urls' /\ waiter'[u] = "returned" /\ File(u)' = File(t)'
            /\ files'[File(t)'] = Written(events'[u])
        BY <1>1, <3>0, <4>1, <4>2 DEF givenVars
      <4> QED
        BY <4>3 DEF FileInv
    <3> QED
      BY <3>2, <3>3, <3>4 DEF ClientInv, ClientTypes, TypeOK
  <2> QED
    BY <2>2, <2>3, <2>4
<1> QED
  BY <1>6, <1>7, <1>8, <1>9 DEF ClientInv

\* The client reads item, the next of stream s.
Reads(s, item) ==
  /\ item \in Sendables \ urls /\ item \in ToSet(wire[s])
  /\ read[s] + 1 \in 1 .. Len(wire[s]) /\ item = wire[s][read[s] + 1]
  /\ read' = [read EXCEPT ![s] = @ + 1]
  /\ Taken(s)' = Append(Taken(s), item)
  /\ \A t \in Streams \ {s} : Taken(t)' = Taken(t)
  /\ UNCHANGED <<serverVars, givenVars, upstream, files, main, lost>>

\* What reading an item may change.
Outcome(s) ==
  /\ waiter' \in [Streams -> {"none", "pending", "done", "returned"}]
  /\ events' \in [Streams -> Seq(Contents)]
  /\ pushes' \in [Streams -> Seq(Contents \cup {"promise"})]
  /\ ws' \in [sent : 0 .. 2, received : 0 .. 2, queued : Nat, closing : BOOLEAN]
  /\ ws'.sent = ws.sent /\ ws'.received = ws.received
  /\ \A u \in Streams : /\ waiter'[u] = "returned" => waiter[u] = "returned"
                        /\ waiter[u] = "returned" =>
                             waiter'[u] = "returned" /\ events'[u] = events[u]
  /\ \A t \in Streams \ {s} : waiter'[t] = waiter[t] /\ events'[t] = events[t]
  /\ \A u \in urls : pushes'[u] = << >>
  /\ scheme = "wss" => \A u \in urls :
       ws'.received + ws'.queued = Len(Only(Taken(u)', {"data"}))
  /\ RequestInv(s)'
  /\ \A p \in Streams : PushInv(p)'

LEMMA ReadItem ==
  ASSUME ServerInv, ClientInv, NEW s \in Streams, Read(s)
  PROVE  Reads(s, wire[s][read[s] + 1])
<1>1. /\ read[s] < Len(wire[s]) /\ read' = [read EXCEPT ![s] = @ + 1]
      /\ UNCHANGED <<serverVars, givenVars, upstream, files, main, lost>>
  BY DEF Read
<1>2. /\ read[s] \in Nat /\ wire[s] \in Seq(Sendables) /\ read \in [Streams -> Nat]
      /\ UNCHANGED wire
  BY <1>1, ReadTypes DEF ClientInv, ClientTypes, serverVars
<1>3. /\ wire[s][read[s] + 1] \in Sendables /\ read[s] + 1 \in 1 .. Len(wire[s])
      /\ SubSeq(wire[s], 1, read[s] + 1)
           = Append(SubSeq(wire[s], 1, read[s]), wire[s][read[s] + 1])
  BY <1>1, <1>2, TakenNext
<1>4. read'[s] = read[s] + 1 /\ \A t \in Streams \ {s} : read'[t] = read[t]
  BY <1>1, <1>2
<1>5. Taken(s)' = Append(Taken(s), wire[s][read[s] + 1])
  BY <1>2, <1>3, <1>4 DEF Taken
<1>6. \A t \in Streams \ {s} : Taken(t)' = Taken(t)
  BY <1>2, <1>4 DEF Taken
<1>7. wire[s][read[s] + 1] \in ToSet(wire[s])
  BY <1>2, <1>3, ElementsTaken
<1>8. wire[s][read[s] + 1] \notin urls
  BY <1>7 DEF ClientInv, OwnStreams
<1> QED
  BY <1>1, <1>3, <1>5, <1>6, <1>7, <1>8 DEF Reads

LEMMA OnlyMore ==
  ASSUME ServerInv, ClientInv, NEW s \in Streams, NEW item, Reads(s, item), NEW S
  PROVE  Only(Taken(s)', S)
           = IF item \in S THEN Append(Only(Taken(s), S), item) ELSE Only(Taken(s), S)
<1>1. Taken(s) \in Seq(Sendables) /\ item \in Sendables /\ Taken(s)' = Append(Taken(s), item)
  BY ReadTypes DEF Reads
<1>2. Only(Append(Taken(s), item), S)
        = IF item \in S THEN Append(Only(Taken(s), S), item) ELSE Only(Taken(s), S)
  BY <1>1, OnlyAppend
<1> QED
  BY <1>1, <1>2

\* Only the last of a stream ends it.
LEMMA FinIsLast ==
  ASSUME ServerInv, ClientInv, NEW s \in Streams, NEW item, Reads(s, item)
  PROVE  /\ item = "fin" => read'[s] = Len(wire'[s]) /\ "fin" \in ToSet(wire'[s])
         /\ item # "fin" /\ "fin" \notin ToSet(Taken(s)) => "fin" \notin ToSet(Taken(s)')
         /\ waiter[s] \notin {"done", "returned"}
<1>1. read[s] + 1 \in 1 .. Len(wire[s]) /\ read[s] \in Nat /\ Len(wire[s]) \in Nat
  BY ReadTypes DEF Reads
<1>2. item = "fin" => read[s] + 1 = Len(wire[s])
  BY <1>1 DEF Reads, ServerInv, StreamEnd, EndsOnce
<1>3. read'[s] = read[s] + 1 /\ wire'[s] = wire[s]
  BY DEF Reads, ClientInv, ClientTypes, serverVars
<1>4. ToSet(Taken(s)') = ToSet(Taken(s)) \cup {item}
  <2>1. Taken(s) \in Seq(Sendables) /\ item \in Sendables /\ Taken(s)' = Append(Taken(s), item)
    BY ReadTypes DEF Reads
  <2>2. ToSet(Append(Taken(s), item)) = ToSet(Taken(s)) \cup {item}
    BY <2>1, ElementsOfAppend
  <2> QED
    BY <2>1, <2>2
<1>5. waiter[s] \notin {"done", "returned"}
  BY <1>1 DEF ClientInv, RequestInv
<1> QED
  BY <1>2, <1>3, <1>4, <1>5 DEF Reads

LEMMA CountsKept ==
  ASSUME ServerInv, ClientInv, NEW s \in Streams, NEW item, Reads(s, item), UNCHANGED ws,
         s \in urls => item # "data"
  PROVE  scheme = "wss" => \A u \in urls :
           ws'.received + ws'.queued = Len(Only(Taken(u)', {"data"}))
<1> SUFFICES ASSUME scheme = "wss", NEW u \in urls
             PROVE  ws'.received + ws'.queued = Len(Only(Taken(u)', {"data"}))
  OBVIOUS
<1>0. u \in Streams
  BY DEF ClientInv, ClientTypes, TypeOK
<1>1. ws.received + ws.queued = Len(Only(Taken(u), {"data"}))
  BY DEF ClientInv, WebSocketInv
<1>2. CASE u = s
  <2>1. Only(Taken(s)', {"data"}) = Only(Taken(s), {"data"})
    BY <1>2, OnlyMore
  <2> QED
    BY <1>1, <1>2, <2>1
<1>3. CASE u # s
  BY <1>0, <1>1, <1>3 DEF Reads
<1> QED
  BY <1>2, <1>3

LEMMA PushSame ==
  ASSUME ServerInv, ClientInv, NEW s \in Streams, NEW item, Reads(s, item), NEW p \in Streams,
         pushes'[p] = pushes[p], p # s \/ pushes[s] = << >> \/ item \notin Contents
  PROVE  PushInv(p)'
<1>1. PushInv(p)
  BY DEF ClientInv
<1>2. CASE p # s
  BY <1>1, <1>2 DEF Reads, PushInv
<1>3. CASE pushes[p] = << >>
  BY <1>3 DEF PushInv
<1>4. CASE p = s /\ item \notin Contents
  <2>1. Only(Taken(s)', Contents) = Only(Taken(s), Contents)
    BY <1>4, OnlyMore
  <2> QED
    BY <1>1, <1>4, <2>1 DEF PushInv
<1> QED
  BY <1>2, <1>3, <1>4

\* A push is promised.
LEMMA PromiseRead ==
  ASSUME ServerInv, ClientInv, NEW s \in Streams, NEW item, Reads(s, item),
         item \in Streams, pushes' = Promised(item), UNCHANGED <<waiter, events, ws>>
  PROVE  Outcome(s)
<1>1. item \notin Contents /\ item # "fin" /\ item # "data" /\ item \notin urls
  BY ContentsAreSendable DEF Reads, Contents
<1>2. /\ pushes \in [Streams -> Seq(Contents \cup {"promise"})] /\ urls \subseteq Streams
      /\ <<"promise">> \in Seq(Contents \cup {"promise"})
  BY DEF ClientInv, ClientTypes, TypeOK
<1>3. /\ pushes' \in [Streams -> Seq(Contents \cup {"promise"})]
      /\ pushes'[item] = <<"promise">>
      /\ \A p \in Streams \ {item} : pushes'[p] = pushes[p]
  BY <1>2 DEF Promised
<1>4. \A u \in urls : pushes'[u] = << >>
  BY <1>1, <1>2, <1>3 DEF ClientInv, OwnStreams
<1>5. RequestInv(s)'
  <2>1. /\ Only(Taken(s)', Contents) = Only(Taken(s), Contents)
        /\ "fin" \notin ToSet(Taken(s)) => "fin" \notin ToSet(Taken(s)')
        /\ waiter[s] \notin {"done", "returned"} /\ RequestInv(s)
    BY <1>1, OnlyMore, FinIsLast DEF ClientInv
  <2> QED
    BY <2>1 DEF RequestInv, Reads, givenVars
<1>6. \A p \in Streams : PushInv(p)'
  <2> SUFFICES ASSUME NEW p \in Streams PROVE PushInv(p)'
    OBVIOUS
  <2>1. CASE p = item
    <3>1. Head(<<"promise">>) = "promise" /\ Tail(<<"promise">>) = << >>
      OBVIOUS
    <3>2. Taken(p)' \in Seq(Sendables)
      <4>1. CASE p = s
        <5>1. Taken(s) \in Seq(Sendables) /\ item \in Sendables /\ Taken(s)' = Append(Taken(s), item)
          BY ReadTypes DEF Reads
        <5> QED
          BY <4>1, <5>1, AppendProperties
      <4>2. CASE p # s
        BY <4>2, ReadTypes DEF Reads
      <4> QED
        BY <4>1, <4>2
    <3>3. Only(Taken(p)', Contents) \in Seq(Contents)
      BY <3>2, OnlyTypeOf
    <3>4. IsSuffix(<< >>, Only(Taken(p)', Contents))
      BY <3>3, SuffixEmpty
    <3> QED
      BY <1>3, <2>1, <3>1, <3>4 DEF PushInv
  <2>2. CASE p # item
    BY <1>1, <1>3, <2>2, PushSame
  <2> QED
    BY <2>1, <2>2
<1>7. scheme = "wss" => \A u \in urls :
        ws'.received + ws'.queued = Len(Only(Taken(u)', {"data"}))
  BY <1>1, CountsKept
<1> QED
  BY <1>2, <1>3, <1>4, <1>5, <1>6, <1>7 DEF Outcome, ClientInv, ClientTypes, TypeOK

\* An event of a response.
LEMMA AnswerRead ==
  ASSUME ServerInv, ClientInv, NEW s \in Streams, NEW item, Reads(s, item),
         item \notin Streams, waiter[s] = "pending", Answer(s, item), UNCHANGED <<pushes, ws>>
  PROVE  Outcome(s)
<1>1. /\ item \in Contents /\ scheme = "https" /\ s \in urls /\ pushes[s] = << >>
  BY DEF Reads, Sendables, ClientInv, RequestInv, OwnStreams
<1>2. /\ waiter \in [Streams -> {"none", "pending", "done", "returned"}]
      /\ events \in [Streams -> Seq(Contents)]
  BY DEF ClientInv, ClientTypes, TypeOK
<1>3. /\ events' \in [Streams -> Seq(Contents)] /\ events'[s] = Append(events[s], item)
      /\ \A t \in Streams \ {s} : events'[t] = events[t]
  BY <1>1, <1>2, AppendProperties DEF Answer
<1>4. /\ waiter' \in [Streams -> {"none", "pending", "done", "returned"}]
      /\ waiter'[s] = IF item = "fin" THEN "done" ELSE "pending"
      /\ \A t \in Streams \ {s} : waiter'[t] = waiter[t]
  BY <1>2 DEF Answer
<1>5. RequestInv(s)'
  <2>1. /\ Only(Taken(s)', Contents) = Append(Only(Taken(s), Contents), item)
        /\ item = "fin" => read'[s] = Len(wire'[s]) /\ "fin" \in ToSet(wire'[s])
        /\ item # "fin" /\ "fin" \notin ToSet(Taken(s)) => "fin" \notin ToSet(Taken(s)')
    BY <1>1, OnlyMore, FinIsLast
  <2>2. events[s] = Only(Taken(s), Contents) /\ "fin" \notin ToSet(Taken(s))
    BY <1>1 DEF ClientInv, RequestInv
  <2>3. events'[s] = Only(Taken(s)', Contents)
    BY <1>3, <2>1, <2>2
  <2>4. scheme' = "https" /\ s \in urls'
    BY <1>1 DEF Reads, givenVars
  <2> QED
    BY <1>4, <2>1, <2>2, <2>3, <2>4 DEF RequestInv
<1>6. \A p \in Streams : PushInv(p)'
  BY <1>1, PushSame
<1> QED
  BY <1>1, <1>3, <1>4, <1>5, <1>6 DEF Outcome, ClientInv, ClientTypes, TypeOK, OwnStreams

\* An event of the WebSocket.
LEMMA WebSocketRead ==
  ASSUME ServerInv, ClientInv, NEW s \in Streams, NEW item, Reads(s, item),
         scheme = "wss", s \in urls, WebSocketEvent(item), UNCHANGED <<waiter, events, pushes>>
  PROVE  Outcome(s)
<1>1. /\ ws \in [sent : 0 .. 2, received : 0 .. 2, queued : Nat, closing : BOOLEAN]
      /\ pushes[s] = << >>
  BY DEF ClientInv, ClientTypes, OwnStreams
<1>2. ws' = [sent |-> ws.sent, received |-> ws.received,
             queued |-> IF item = "data" THEN ws.queued + 1 ELSE ws.queued,
             closing |-> ws.closing \/ item = "fin"]
  BY <1>1 DEF WebSocketEvent
<1>3. /\ ws' \in [sent : 0 .. 2, received : 0 .. 2, queued : Nat, closing : BOOLEAN]
      /\ ws'.sent = ws.sent /\ ws'.received = ws.received
      /\ ws'.queued = IF item = "data" THEN ws.queued + 1 ELSE ws.queued
  <2>1. (ws.closing \/ item = "fin") \in BOOLEAN
    OBVIOUS
  <2>2. (IF item = "data" THEN ws.queued + 1 ELSE ws.queued) \in Nat
    BY <1>1
  <2> QED
    BY <1>1, <1>2, <2>1, <2>2
<1>4. \A u \in urls : u = s
  BY DEF ClientInv, WebSocketInv
<1>5. ws'.received + ws'.queued = Len(Only(Taken(s)', {"data"}))
  <2>1. ws.received + ws.queued = Len(Only(Taken(s), {"data"}))
    BY DEF ClientInv, WebSocketInv
  <2>2. Only(Taken(s), {"data"}) \in Seq({"data"})
    BY ReadTypes, OnlyTypeOf
  <2>3. CASE item = "data"
    <3>1. Only(Taken(s)', {"data"}) = Append(Only(Taken(s), {"data"}), "data")
      BY <2>3, OnlyMore
    <3>2. Len(Append(Only(Taken(s), {"data"}), "data")) = Len(Only(Taken(s), {"data"})) + 1
      BY <2>2, AppendProperties
    <3>3. ws'.received + ws'.queued = ws.received + ws.queued + 1
      BY <1>1, <1>3, <2>3
    <3> QED
      BY <2>1, <3>1, <3>2, <3>3
  <2>4. CASE item # "data"
    <3>1. Only(Taken(s)', {"data"}) = Only(Taken(s), {"data"})
      BY <2>4, OnlyMore
    <3> QED
      BY <1>3, <2>1, <2>4, <3>1
  <2> QED
    BY <2>3, <2>4
<1>6. RequestInv(s)'
  <2>1. scheme' = "wss" /\ waiter[s] = "none" /\ waiter'[s] = "none"
    BY DEF Reads, givenVars, ClientInv, RequestInv
  <2> QED
    BY <2>1 DEF RequestInv
<1>7. \A p \in Streams : PushInv(p)'
  BY <1>1, PushSame
<1> QED
  BY <1>3, <1>4, <1>5, <1>6, <1>7 DEF Outcome, ClientInv, ClientTypes, TypeOK, OwnStreams

\* An event of a push, or of a stream the client knows nothing of.
LEMMA PushRead ==
  ASSUME ServerInv, ClientInv, NEW s \in Streams, NEW item, Reads(s, item),
         item \notin Streams, s \notin urls, PushEvent(s, item), UNCHANGED <<waiter, events, ws>>
  PROVE  Outcome(s)
<1>1. /\ item \in Contents /\ waiter[s] = "none" /\ urls \subseteq Streams
      /\ waiter \in [Streams -> {"none", "pending", "done", "returned"}]
  BY DEF Reads, Sendables, ClientInv, ClientTypes, TypeOK, RequestInv
<1>2. /\ pushes \in [Streams -> Seq(Contents \cup {"promise"})]
      /\ pushes[s] \in Seq(Contents \cup {"promise"}) /\ item \in Contents \cup {"promise"}
  BY <1>1 DEF ClientInv, ClientTypes, TypeOK
<1>3. /\ pushes' \in [Streams -> Seq(Contents \cup {"promise"})]
      /\ pushes'[s] = IF pushes[s] = << >> THEN << >> ELSE Append(pushes[s], item)
      /\ \A p \in Streams \ {s} : pushes'[p] = pushes[p]
  BY <1>2, AppendProperties DEF PushEvent
<1>4. PushInv(s)'
  <2>1. CASE pushes[s] = << >>
    BY <1>3, <2>1 DEF PushInv
  <2>2. CASE pushes[s] # << >>
    <3>1. PICK x \in Seq(Contents \cup {"promise"}), y \in Seq(Contents \cup {"promise"}) :
            x = Tail(pushes[s]) /\ y = Only(Taken(s), Contents)
      <4>1. Only(Taken(s), Contents) \in Seq(Contents)
        BY ReadTypes, OnlyTypeOf
      <4>2. Only(Taken(s), Contents) \in Seq(Contents \cup {"promise"})
        BY <4>1, SeqMonotonic
      <4>3. Tail(pushes[s]) \in Seq(Contents \cup {"promise"})
        BY <1>2, <2>2, HeadTailProperties
      <4> QED
        BY <4>2, <4>3
    <3>2. Head(pushes[s]) = "promise" /\ IsSuffix(x, y)
      BY <2>2, <3>1 DEF ClientInv, PushInv
    <3>3. /\ Head(Append(pushes[s], item)) = Head(pushes[s])
          /\ Tail(Append(pushes[s], item)) = Append(x, item)
      BY <1>2, <2>2, <3>1, HeadOfAppend
    <3>4. Only(Taken(s)', Contents) = Append(y, item)
      BY <1>1, <3>1, OnlyMore
    <3>5. IsSuffix(Append(x, item), Append(y, item))
      BY <1>2, <3>2, SuffixGrows
    <3> QED
      BY <1>3, <2>2, <3>2, <3>3, <3>4, <3>5 DEF PushInv
  <2> QED
    BY <2>1, <2>2
<1>5. \A p \in Streams \ {s} : PushInv(p)'
  BY <1>3, PushSame
<1>6. RequestInv(s)'
  <2>1. waiter'[s] = "none" /\ s \notin urls'
    BY <1>1 DEF Reads, givenVars
  <2> QED
    BY <2>1 DEF RequestInv
<1>7. scheme = "wss" => \A u \in urls :
        ws'.received + ws'.queued = Len(Only(Taken(u)', {"data"}))
  BY CountsKept
<1>8. \A u \in urls : pushes'[u] = << >>
  BY <1>1, <1>3 DEF ClientInv, OwnStreams
<1> QED
  BY <1>3, <1>4, <1>5, <1>6, <1>7, <1>8 DEF Outcome, ClientInv, ClientTypes, TypeOK

LEMMA ReadKeepsClient ==
  ASSUME ServerInv, ClientInv, NEW s \in Streams, Read(s)
  PROVE  ClientInv'
<1>1. PICK item : item = wire[s][read[s] + 1] /\ Reads(s, item)
  BY ReadItem
<1>2. Outcome(s)
  <2>1. \/ /\ item \in Streams
           /\ pushes' = Promised(item) /\ UNCHANGED <<waiter, events, ws>>
        \/ /\ item \notin Streams /\ waiter[s] = "pending"
           /\ Answer(s, item) /\ UNCHANGED <<pushes, ws>>
        \/ /\ item \notin Streams /\ scheme = "wss" /\ s \in urls
           /\ WebSocketEvent(item) /\ UNCHANGED <<waiter, events, pushes>>
        \/ /\ item \notin Streams /\ s \notin urls
           /\ PushEvent(s, item) /\ UNCHANGED <<waiter, events, ws>>
    BY <1>1 DEF Read
  <2> QED
    BY <1>1, <2>1, PromiseRead, AnswerRead, WebSocketRead, PushRead
<1>3. ServerTypeOK' /\ UNCHANGED <<wire, kind>>
  BY <1>1, ServerAlone DEF Reads
<1>4. /\ main = "running" /\ main' = main /\ urls' = urls /\ clash' = clash /\ scheme' = scheme
      /\ posts' = posts /\ UNCHANGED <<upstream, files>>
  BY <1>1 DEF Reads, Read, givenVars
<1>5. ClientTypes'
  <2>1. read' \in [Streams -> Nat] /\ \A t \in Streams : read'[t] \in 0 .. Len(wire'[t])
    <3>1. read' = [read EXCEPT ![s] = @ + 1] /\ read[s] + 1 \in 1 .. Len(wire[s])
      BY <1>1 DEF Reads
    <3> QED
      BY <1>3, <3>1 DEF ClientInv, ClientTypes, TypeOK
  <2> QED
    BY <1>1, <1>2, <1>3, <1>4, <2>1 DEF ClientInv, ClientTypes, TypeOK, Outcome, Reads
<1>6. WebSocketInv'
  BY <1>2, <1>3, <1>4 DEF ClientInv, WebSocketInv, Outcome
<1>7. OwnStreams'
  BY <1>2, <1>3, <1>4 DEF ClientInv, OwnStreams, Outcome
<1>8. ASSUME NEW t \in Streams PROVE RequestInv(t)' /\ FileInv(t)' /\ PushInv(t)'
  <2>1. RequestInv(t)'
    <3>1. CASE t = s
      BY <1>2, <3>1 DEF Outcome
    <3>2. CASE t # s
      <4>1. /\ RequestInv(t) /\ waiter'[t] = waiter[t] /\ events'[t] = events[t]
            /\ Taken(t)' = Taken(t)
        BY <1>1, <1>2, <3>2 DEF ClientInv, Outcome, Reads
      <4>2. read'[t] = read[t]
        BY <1>1, <3>2 DEF Reads, ClientInv, ClientTypes
      <4> QED
        BY <1>3, <1>4, <4>1, <4>2 DEF RequestInv
    <3> QED
      BY <3>1, <3>2
  <2>2. FileInv(t)'
    <3> SUFFICES ASSUME waiter'[t] = "returned" PROVE FileInv(t)'
      BY DEF FileInv
    <3>1. waiter[t] = "returned"
      BY <1>2 DEF Outcome
    <3>2. PICK u \in urls : /\ waiter[u] = "returned" /\ File(u) = File(t)
                            /\ files[File(t)] = Written(events[u])
      BY <1>4, <3>1 DEF ClientInv, FileInv
    <3>3. u \in Streams /\ \A v : File(v)' = File(v)
      BY <1>4 DEF ClientInv, ClientTypes, TypeOK, File
    <3>4. /\ u \in urls' /\ waiter'[u] = "returned" /\ File(u)' = File(t)'
          /\ files'[File(t)'] = Written(events'[u])
      BY <1>2, <1>4, <3>2, <3>3 DEF Outcome
    <3> QED
      BY <3>4 DEF FileInv
  <2> QED
    BY <1>2, <2>1, <2>2 DEF Outcome
<1> QED
  BY <1>5, <1>6, <1>7, <1>8 DEF ClientInv

-----------------------------------------------------------------------------
(* The client, for any number of streams *)

LEMMA ClientInvInit == ASSUME Init PROVE ClientInv
<1>1. /\ ServerTypeOK /\ wire = [s \in Streams |-> << >>] /\ kind = [s \in Streams |-> "none"]
  BY ServerInvInit DEF Init, ServerInit, ServerInv
<1>2. /\ scheme \in {"https", "wss", "other"} /\ urls \subseteq Streams
      /\ scheme = "wss" => Cardinality(urls) = 1
      /\ posts \in BOOLEAN /\ clash \in BOOLEAN
      /\ read = [s \in Streams |-> 0] /\ waiter = [s \in Streams |-> "none"]
      /\ upstream = [s \in Streams |-> << >>] /\ events = [s \in Streams |-> << >>]
      /\ pushes = [s \in Streams |-> << >>] /\ files = [s \in Streams |-> <<"absent">>]
      /\ ws = [sent |-> 0, received |-> 0, queued |-> 0, closing |-> FALSE]
      /\ main = "starting" /\ lost = FALSE
  BY DEF Init
<1>3. Len(<< >>) = 0 /\ \A S : Only(<< >>, S) = << >>
  BY OnlyEmpty
<1>4. \A s \in Streams : Taken(s) = << >>
  <2>1. SubSeq(<< >>, 1, 0) = << >>
    BY SubSeqEmpty
  <2> QED
    BY <1>1, <1>2, <2>1 DEF Taken
<1>5. ClientTypes
  <2>1. \A T : << >> \in Seq(T)
    BY EmptySequences
  <2>2. <<"absent">> \in Seq({"absent", "data", "fin"})
    OBVIOUS
  <2>3. ws \in [sent : 0 .. 2, received : 0 .. 2, queued : Nat, closing : BOOLEAN]
    BY <1>2
  <2>4. /\ ws.sent \in 0 .. 2 /\ ws.received \in 0 .. 2 /\ ws.queued \in Nat
        /\ ws.sent - ws.received \in {0, 1}
    BY <1>2
  <2>5. /\ upstream \in [Streams -> Seq(ClientItems)] /\ events \in [Streams -> Seq(Contents)]
        /\ pushes \in [Streams -> Seq(Contents \cup {"promise"})]
        /\ files \in [Streams -> Seq({"absent", "data", "fin"})]
    BY <1>2, <2>1, <2>2
  <2>6. /\ read \in [Streams -> Nat] /\ \A s \in Streams : read[s] \in 0 .. Len(wire[s])
        /\ waiter \in [Streams -> {"none", "pending", "done", "returned"}]
    BY <1>1, <1>2, <1>3
  <2>7. main \in {"starting", "running", "over", "failed"} /\ lost \in BOOLEAN
    BY <1>2
  <2> QED
    BY <1>1, <1>2, <2>3, <2>4, <2>5, <2>6, <2>7 DEF ClientTypes, TypeOK
<1>6. WebSocketInv
  <2>1. scheme = "wss" => \E u \in Streams : urls = {u}
    <3>1. IsFiniteSet(urls)
      BY <1>2, FS_Subset, StreamsAssumption
    <3>2. Cardinality(urls) = 1 => \E u : urls = {u}
      BY <3>1, FS_Singleton
    <3> QED
      BY <1>2, <3>2
  <2>2. \A s \in urls : ws.received + ws.queued = Len(Only(Taken(s), {"data"}))
    BY <1>2, <1>3, <1>4
  <2> QED
    BY <1>1, <1>2, <2>1, <2>2 DEF WebSocketInv
<1>7. OwnStreams
  BY <1>1, <1>2, ElementsOfEmpty DEF OwnStreams
<1>8. ASSUME NEW t \in Streams PROVE RequestInv(t) /\ FileInv(t) /\ PushInv(t)
  BY <1>2, <1>3, <1>4, ElementsOfEmpty DEF RequestInv, FileInv, PushInv
<1> QED
  BY <1>5, <1>6, <1>7, <1>8 DEF ClientInv

LEMMA ClientSame == ASSUME ServerInv, ClientInv, UNCHANGED vars PROVE ClientInv'
<1>1. UNCHANGED <<serverVars, givenVars, upstream, read, waiter, events, pushes, ws,
                  files, main, lost>>
  BY DEF vars, clientVars
<1>2. ServerTypeOK' /\ UNCHANGED <<wire, kind>>
  BY <1>1, ServerAlone
<1>3. \A t : Taken(t)' = Taken(t)
  BY <1>1, <1>2 DEF Taken
<1>4. ClientTypes'
  BY <1>1, <1>2 DEF ClientInv, ClientTypes, TypeOK, givenVars
<1>5. WebSocketInv'
  BY <1>1, <1>2, <1>3 DEF ClientInv, WebSocketInv, givenVars
<1>6. OwnStreams'
  BY <1>1, <1>2 DEF ClientInv, OwnStreams, givenVars
<1>7. ASSUME NEW t \in Streams PROVE RequestInv(t)' /\ FileInv(t)' /\ PushInv(t)'
  BY <1>1, <1>2, <1>3, StreamSame
<1> QED
  BY <1>4, <1>5, <1>6, <1>7 DEF ClientInv

LEMMA InvStep == Inv /\ [Next]_vars => Inv'
<1> SUFFICES ASSUME ServerInv, ClientInv, [Next]_vars PROVE ServerInv' /\ ClientInv'
  BY DEF Inv
<1>1. ServerInv'
  BY ServerInvStep
<1>2. CASE UNCHANGED vars
  BY <1>1, <1>2, ClientSame
<1>3. CASE \E s \in Streams : /\ ServerMoves(s) /\ UNCHANGED <<givenVars, clientVars>>
                              /\ scheme = "other" \/ app[s] \in {"scheduled", "running"}
  BY <1>1, <1>3, ServerStepKeepsClient
<1>4. CASE \E s \in Streams : Deliver(s)
  BY <1>1, <1>4, DeliverKeepsClient
<1>5. CASE \E s \in Streams : OpenWebSocket(s) \/ WebSocketTurn(s) \/ RequestReturns(s) \/ Read(s)
  BY <1>1, <1>5, OpenKeepsClient, TurnKeepsClient, ReturnKeepsClient, ReadKeepsClient
<1>6. CASE CheckUrls \/ Ask \/ AllDone \/ LoseConnection
  BY <1>1, <1>6, OthersKeepClient, AskKeepsClient, AllDoneKeepsClient
<1>7. ClientInv'
  BY <1>1, <1>2, <1>3, <1>4, <1>5, <1>6, StepCases
<1> QED
  BY <1>1, <1>7

LEMMA InvAlways == Spec => []Inv
<1>1. Init => Inv
  BY ServerInvInit, ClientInvInit DEF Inv
<1> QED
  BY <1>1, InvStep, PTL DEF Spec

\* Every variable of the client and the server keeps its type.
THEOREM TypeCorrect == Spec => []TypeOK
<1>1. Inv => TypeOK
  BY DEF Inv, ClientInv, ClientTypes
<1> QED
  BY <1>1, InvAlways, PTL

LEMMA AllTaken ==
  ASSUME ServerInv, ClientInv, NEW s \in Streams, read[s] = Len(wire[s])
  PROVE  Taken(s) = wire[s]
  BY ReadTypes, TakenAll DEF Taken

\* A request that is done has the whole response, and its file holds a whole
\* response of that name.
THEOREM ResultsAreWhole == Spec => []ResultsWhole
<1>1. ASSUME ServerInv, ClientInv, NEW s \in Streams, waiter[s] \in {"done", "returned"}
      PROVE  Last(wire[s]) = "fin" /\ events[s] = Response(s)
  <2>1. /\ read[s] = Len(wire[s]) /\ "fin" \in ToSet(wire[s]) /\ EndsOnce(wire[s])
        /\ events[s] = Only(Taken(s), Contents)
    BY <1>1 DEF ClientInv, RequestInv, ServerInv, StreamEnd
  <2>2. events[s] = Response(s)
    BY <1>1, <2>1, AllTaken DEF Response
  <2>3. PICK n \in DOMAIN wire[s] : wire[s][n] = "fin"
    BY <2>1 DEF ToSet
  <2>4. n \in 1 .. Len(wire[s])
    BY <1>1, ReadTypes, LenProperties
  <2>5. n = Len(wire[s])
    BY <2>1, <2>3, <2>4 DEF EndsOnce
  <2> QED
    BY <2>2, <2>3, <2>5 DEF Last
<1>2. ASSUME ServerInv, ClientInv, NEW s \in urls PROVE
        waiter[s] = "returned" =>
          \/ \E u \in urls : /\ waiter[u] = "returned" /\ File(u) = File(s)
                             /\ files[File(s)] = Written(Response(u))
          \/ main = "over" /\ \E p \in Pushed : /\ File(p) = File(s)
                                                 /\ files[File(s)] = Written(pushes[p])
  <2>1. urls \subseteq Streams /\ FileInv(s)
    BY <1>2 DEF ClientInv, ClientTypes, TypeOK
  <2>2. \A u \in urls : waiter[u] = "returned" => events[u] = Response(u)
    BY <1>1, <1>2, <2>1
  <2> QED
    BY <2>1, <2>2 DEF FileInv
<1>3. Inv => ResultsWhole
  <2>1. Inv => urls \subseteq Streams
    BY DEF Inv, ClientInv, ClientTypes, TypeOK
  <2> QED
    BY <1>1, <1>2, <2>1 DEF Inv, ResultsWhole
<1> QED
  BY <1>3, InvAlways, PTL

\* When all is read, the client waits only for what was not sent.
THEOREM WaitsForServer == Spec => []WaitsOnlyForServer
<1>1. ASSUME ServerInv, ClientInv, NEW s \in urls, waiter[s] = "pending", read[s] = Len(wire[s])
      PROVE  "fin" \notin ToSet(wire[s])
  <2>1. s \in Streams
    BY <1>1 DEF ClientInv, ClientTypes, TypeOK
  <2>2. "fin" \notin ToSet(Taken(s))
    BY <1>1, <2>1 DEF ClientInv, RequestInv
  <2> QED
    BY <1>1, <2>1, <2>2, AllTaken
<1>2. ASSUME ClientInv, scheme = "wss", NEW s \in urls
      PROVE  ws.received + ws.queued = Len(Only(SubSeq(wire[s], 1, read[s]), {"data"}))
  BY <1>2 DEF ClientInv, WebSocketInv, Taken
<1>3. Inv => WaitsOnlyForServer
  BY <1>1, <1>2 DEF Inv, WaitsOnlyForServer
<1> QED
  BY <1>3, InvAlways, PTL

\* What is kept of a push is whole from the promise on.
THEOREM PushesAreWhole == Spec => []PushesWhole
<1>1. Inv => PushesWhole
  BY DEF Inv, ClientInv, PushInv, PushesWhole, Taken
<1> QED
  BY <1>1, InvAlways, PTL
=============================================================================
