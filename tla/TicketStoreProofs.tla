------------------------- MODULE TicketStoreProofs --------------------------
(***************************************************************************)
(* Proofs about TicketStore, for any servers and tickets, whichever of the *)
(* servers fail: typing, the bound on the uses of a ticket, and that a     *)
(* lost subscription is not regained.                                      *)
(***************************************************************************)
EXTENDS TicketStore, TLAPS

\* A ticket is published by the server that issued it.
IssuerPublishes == \A p \in publishing : issuer[p[2]] = p[1]

Inv == TypeOK /\ IssuerPublishes /\ UsesAndChances

LEMMA StepCases ==
  ASSUME [Next]_vars
  PROVE  \/ \E s \in Servers, k \in Tickets : Add(s, k)
         \/ \E s \in Servers, k \in Tickets : PublishTicket(s, k)
         \/ \E s \in Servers, k \in Tickets : OnMessage(s, k)
         \/ \E s \in Servers, k \in Tickets : Pop(s, k)
         \/ \E s \in Servers : LinkLost(s)
         \/ \E s \in Servers : LinkBack(s)
         \/ \E s \in Servers : Restart(s)
         \/ UNCHANGED vars
  BY DEF Next

LEMMA InvInit == Init => Inv
  BY NobodyAssumption
  DEF Init, Inv, TypeOK, IssuerPublishes, UsesAndChances, Chances, One, Pending

\* Typing and the publisher of a ticket are preserved by themselves.
LEMMA TypeStep == TypeOK /\ IssuerPublishes /\ [Next]_vars => TypeOK' /\ IssuerPublishes'
<1> SUFFICES ASSUME TypeOK, IssuerPublishes, [Next]_vars
             PROVE  TypeOK' /\ IssuerPublishes'
  OBVIOUS
<1> USE FlakyAssumption, NobodyAssumption DEF TypeOK, IssuerPublishes
<1>1. CASE \E s \in Servers, k \in Tickets : Add(s, k)
  BY <1>1 DEF Add
<1>2. CASE \E s \in Servers, k \in Tickets : PublishTicket(s, k)
  BY <1>2 DEF PublishTicket
<1>3. CASE \E s \in Servers, k \in Tickets : OnMessage(s, k)
  BY <1>3 DEF OnMessage
<1>4. CASE \E s \in Servers, k \in Tickets : Pop(s, k)
  BY <1>4 DEF Pop
<1>5. CASE \E s \in Servers : LinkLost(s)
  BY <1>5 DEF LinkLost
<1>6. CASE \E s \in Servers : LinkBack(s)
  BY <1>6 DEF LinkBack
<1>7. CASE \E s \in Servers : Restart(s)
  BY <1>7 DEF Restart
<1>8. CASE UNCHANGED vars
  BY <1>8 DEF vars
<1> QED
  BY <1>1, <1>2, <1>3, <1>4, <1>5, <1>6, <1>7, <1>8, StepCases

\* The variables always hold values of their types.
THEOREM TypeCorrect == Spec => []TypeOK
<1>1. Init => TypeOK /\ IssuerPublishes
  BY InvInit DEF Inv
<1> QED
  BY <1>1, TypeStep, PTL DEF Spec

\* No step adds to the uses and chances of a ticket at a server, once it is
\* issued: each moves one from one place to the next, or loses it.
LEMMA ChancesStep == Inv /\ [Next]_vars => UsesAndChances'
<1> SUFFICES ASSUME Inv, [Next]_vars,
                    NEW s \in Servers, NEW k \in Tickets
             PROVE  uses'[s][k] + Chances(s, k)' <=
                      IF issuer'[k] = Nobody THEN 0
                      ELSE IF issuer'[k] = s THEN 2 ELSE 1
  BY DEF UsesAndChances
<1>inv. TypeOK /\ IssuerPublishes /\ TypeOK' /\ IssuerPublishes'
  BY TypeStep DEF Inv
<1>uc. uses[s][k] + Chances(s, k) <=
         IF issuer[k] = Nobody THEN 0 ELSE IF issuer[k] = s THEN 2 ELSE 1
  BY DEF Inv, UsesAndChances
<1> USE DEF TypeOK
<1>p. Pending(k) \in BOOLEAN /\ Pending(k)' \in BOOLEAN
  BY DEF Pending
<1>1. CASE \E r \in Servers, j \in Tickets : Add(r, j)
  <2> PICK r \in Servers, j \in Tickets : Add(r, j)
    BY <1>1
  <2>1. CASE j = k
    <3>1. issuer[k] = Nobody /\ issuer'[k] = r
      BY <1>inv, <2>1 DEF Add
    <3>2. inbox'[s] = inbox[s] /\ uses'[s][k] = uses[s][k]
      BY DEF Add
    <3>3. uses[s][k] = 0 /\ k \notin held[s] /\ k \notin inbox[s]
      <4>1. uses[s][k] \in Nat
        BY <1>inv
      <4>2. uses[s][k] + Chances(s, k) <= 0
        BY <1>uc, <3>1
      <4> QED
        BY <4>1, <4>2, <1>p DEF Chances, One
    <3>4. s # r => k \notin held'[s]
      BY <1>inv, <3>3 DEF Add
    <3> QED
      BY <1>p, <3>1, <3>2, <3>3, <3>4, NobodyAssumption DEF Chances, One
  <2>2. CASE j # k
    <3>1. issuer'[k] = issuer[k] /\ (k \in held'[s] <=> k \in held[s])
      BY <1>inv, <2>2 DEF Add
    <3>2. Pending(k)' <=> Pending(k)
      BY <2>2 DEF Add, Pending
    <3>3. inbox'[s] = inbox[s] /\ uses'[s][k] = uses[s][k]
      BY DEF Add
    <3> QED
      BY <1>uc, <1>inv, <3>1, <3>2, <3>3 DEF Chances, One
  <2> QED
    BY <2>1, <2>2
<1>2. CASE \E r \in Servers, j \in Tickets : PublishTicket(r, j)
  <2> PICK r \in Servers, j \in Tickets : PublishTicket(r, j)
    BY <1>2
  <2>1. held'[s] = held[s] /\ uses'[s][k] = uses[s][k] /\ issuer'[k] = issuer[k]
    BY DEF PublishTicket
  <2>2. CASE j = k
    <3>1. Pending(k)
      BY <2>2 DEF PublishTicket, Pending
    <3>2. ~Pending(k)'
      BY <1>inv, <2>2 DEF PublishTicket, Pending, IssuerPublishes
    <3> QED
      BY <1>uc, <1>inv, <2>1, <3>1, <3>2 DEF Chances, One
  <2>3. CASE j # k
    <3>1. Pending(k)' <=> Pending(k)
      BY <2>3 DEF PublishTicket, Pending
    <3>2. k \in inbox'[s] <=> k \in inbox[s]
      BY <1>inv, <2>3 DEF PublishTicket
    <3> QED
      BY <1>uc, <1>inv, <2>1, <3>1, <3>2 DEF Chances, One
  <2> QED
    BY <2>2, <2>3
<1>3. CASE \E r \in Servers, j \in Tickets : OnMessage(r, j)
  <2> PICK r \in Servers, j \in Tickets : OnMessage(r, j)
    BY <1>3
  <2>1. uses'[s][k] = uses[s][k] /\ issuer'[k] = issuer[k]
    BY DEF OnMessage
  <2>2. Pending(k)' <=> Pending(k)
    BY DEF OnMessage, Pending
  <2>3. CASE r = s /\ j = k
    <3>1. k \in inbox[s] /\ k \notin inbox'[s]
      BY <1>inv, <2>3 DEF OnMessage
    <3> QED
      BY <1>uc, <1>inv, <2>1, <2>2, <3>1 DEF Chances, One
  <2>4. CASE ~(r = s /\ j = k)
    <3>1. (k \in inbox'[s] <=> k \in inbox[s]) /\ (k \in held'[s] <=> k \in held[s])
      BY <1>inv, <2>4 DEF OnMessage
    <3> QED
      BY <1>uc, <1>inv, <2>1, <2>2, <3>1 DEF Chances, One
  <2> QED
    BY <2>3, <2>4
<1>4. CASE \E r \in Servers, j \in Tickets : Pop(r, j)
  <2> PICK r \in Servers, j \in Tickets : Pop(r, j)
    BY <1>4
  <2>1. inbox'[s] = inbox[s] /\ issuer'[k] = issuer[k]
    BY DEF Pop
  <2>2. Pending(k)' <=> Pending(k)
    BY DEF Pop, Pending
  <2>3. CASE r = s /\ j = k
    <3>1. k \in held[s] /\ k \notin held'[s] /\ uses'[s][k] = uses[s][k] + 1
      BY <1>inv, <2>3 DEF Pop
    <3> QED
      BY <1>uc, <1>inv, <2>1, <2>2, <3>1 DEF Chances, One
  <2>4. CASE ~(r = s /\ j = k)
    <3>1. (k \in held'[s] <=> k \in held[s]) /\ uses'[s][k] = uses[s][k]
      BY <1>inv, <2>4 DEF Pop
    <3> QED
      BY <1>uc, <1>inv, <2>1, <2>2, <3>1 DEF Chances, One
  <2> QED
    BY <2>3, <2>4
<1>5. CASE \E r \in Servers : LinkLost(r)
  <2>1. held'[s] = held[s] /\ uses'[s][k] = uses[s][k] /\ issuer'[k] = issuer[k]
    BY <1>5 DEF LinkLost
  <2>2. Pending(k)' <=> Pending(k)
    BY <1>5 DEF LinkLost, Pending
  <2>3. k \in inbox'[s] => k \in inbox[s]
    BY <1>inv, <1>5 DEF LinkLost
  <2> QED
    BY <1>uc, <1>inv, <2>1, <2>2, <2>3 DEF Chances, One
<1>6. CASE \E r \in Servers : LinkBack(r)
  BY <1>uc, <1>6 DEF LinkBack, Chances, Pending
<1>7. CASE \E r \in Servers : Restart(r)
  <2>1. uses'[s][k] = uses[s][k] /\ issuer'[k] = issuer[k]
    BY <1>7 DEF Restart
  <2>2. Pending(k)' => Pending(k)
    BY <1>7 DEF Restart, Pending
  <2>3. (k \in inbox'[s] => k \in inbox[s]) /\ (k \in held'[s] => k \in held[s])
    BY <1>inv, <1>7 DEF Restart
  <2> QED
    BY <1>uc, <1>inv, <2>1, <2>2, <2>3 DEF Chances, One
<1>8. CASE UNCHANGED vars
  BY <1>uc, <1>8 DEF vars, Chances, Pending
<1> QED
  BY <1>1, <1>2, <1>3, <1>4, <1>5, <1>6, <1>7, <1>8, StepCases

LEMMA InvStep == Inv /\ [Next]_vars => Inv'
  BY TypeStep, ChancesStep DEF Inv

\* The uses of a ticket and the chances left never exceed what its issuance
\* gave.
THEOREM ChancesConserved == Spec => []UsesAndChances
<1>1. Inv => UsesAndChances
  BY DEF Inv
<1> QED
  BY <1>1, InvInit, InvStep, PTL DEF Spec

\* A ticket resumes at most twice at its issuer, at most once anywhere else.
THEOREM BoundedUses == Spec => []UsesAreBounded
<1>1. Inv => UsesAreBounded
  <2> SUFFICES ASSUME Inv, NEW s \in Servers, NEW k \in Tickets
               PROVE  uses[s][k] <= IF issuer[k] = s THEN 2 ELSE 1
    BY DEF UsesAreBounded
  <2>1. Chances(s, k) \in Nat /\ uses[s][k] \in Nat
    BY DEF Inv, TypeOK, Chances, One
  <2>2. uses[s][k] + Chances(s, k) <=
          IF issuer[k] = Nobody THEN 0 ELSE IF issuer[k] = s THEN 2 ELSE 1
    BY DEF Inv, UsesAndChances
  <2> QED
    BY <2>1, <2>2, NobodyAssumption
<1> QED
  BY <1>1, InvInit, InvStep, PTL DEF Spec

\* A server that lost its subscription gains no ticket of another server before
\* it restarts: its inbox stays empty.
NoPostForOthers == \A s \in Servers : s \notin subscribed => inbox[s] = {}

LEMMA NoPostStep ==
  TypeOK /\ NoPostForOthers /\ [Next]_vars => NoPostForOthers'
<1> SUFFICES ASSUME TypeOK, NoPostForOthers, [Next]_vars PROVE NoPostForOthers'
  OBVIOUS
<1> USE FlakyAssumption DEF TypeOK, NoPostForOthers
<1>1. CASE \E s \in Servers, k \in Tickets : Add(s, k)
  BY <1>1 DEF Add
<1>2. CASE \E s \in Servers, k \in Tickets : PublishTicket(s, k)
  BY <1>2 DEF PublishTicket
<1>3. CASE \E s \in Servers, k \in Tickets : OnMessage(s, k)
  BY <1>3 DEF OnMessage
<1>4. CASE \E s \in Servers, k \in Tickets : Pop(s, k)
  BY <1>4 DEF Pop
<1>5. CASE \E s \in Servers : LinkLost(s)
  BY <1>5 DEF LinkLost
<1>6. CASE \E s \in Servers : LinkBack(s)
  BY <1>6 DEF LinkBack
<1>7. CASE \E s \in Servers : Restart(s)
  BY <1>7 DEF Restart
<1>8. CASE UNCHANGED vars
  BY <1>8 DEF vars
<1> QED
  BY <1>1, <1>2, <1>3, <1>4, <1>5, <1>6, <1>7, <1>8, StepCases

\* A subscription that was lost comes back with a restart only.
THEOREM SubscriptionNotRegained == Spec => LostSubscriptionStays
<1>1. Init => NoPostForOthers
  BY DEF Init, NoPostForOthers
<1>2. TypeOK /\ NoPostForOthers /\ [Next]_vars =>
        [ \A s \in Servers : s \notin subscribed =>
            /\ s \in subscribed' => held'[s] = {}
            /\ \A k \in held'[s] \ held[s] : issuer'[k] = s ]_vars
  <2> SUFFICES ASSUME TypeOK, NoPostForOthers, [Next]_vars,
                      NEW s \in Servers, s \notin subscribed
               PROVE  /\ s \in subscribed' => held'[s] = {}
                      /\ \A k \in held'[s] \ held[s] : issuer'[k] = s
    OBVIOUS
  <2> USE DEF TypeOK, NoPostForOthers
  <2>1. ASSUME s \in subscribed' PROVE held'[s] = {}
    <3>1. PICK r \in Servers : Restart(r)
      BY <2>1, StepCases DEF Add, PublishTicket, OnMessage, Pop, LinkLost,
         LinkBack, vars
    <3> QED
      BY <2>1, <3>1 DEF Restart
  <2>2. ASSUME NEW k \in held'[s] \ held[s] PROVE issuer'[k] = s
    <3>1. CASE \E r \in Servers, j \in Tickets : Add(r, j)
      BY <2>2, <3>1 DEF Add
    <3>2. CASE \E r \in Servers, j \in Tickets : OnMessage(r, j)
      BY <2>2, <3>2 DEF OnMessage
    <3>3. CASE \E r \in Servers, j \in Tickets : Pop(r, j)
      BY <2>2, <3>3 DEF Pop
    <3>4. CASE \E r \in Servers : Restart(r)
      BY <2>2, <3>4 DEF Restart
    <3> QED
      BY <2>2, <3>1, <3>2, <3>3, <3>4, StepCases
         DEF PublishTicket, LinkLost, LinkBack, vars
  <2> QED
    BY <2>1, <2>2
<1> QED
  BY <1>1, <1>2, NoPostStep, TypeCorrect, PTL DEF Spec, LostSubscriptionStays
=============================================================================
